---- MODULE Spec2Model ----
(***************************************************************************)
(* A model of the legal document analyzer: DocumentParser.parse, the       *)
(* TextAnalyzer extractors and keyword search, and the two entry points of *)
(* LegalDocumentAnalyzer (analyze_document, search_document).              *)
(*                                                                         *)
(* Text is a sequence of one-character strings.  A call is followed step   *)
(* by step: the existence check, the extension check, the decoding, the    *)
(* body of the entry point and its except clauses.                         *)
(***************************************************************************)
EXTENDS Integers, Sequences, FiniteSets, TLC

\* ------------------------------------------------------------------ bounds

\* The largest number of blocks written to a .txt file.
MaxRep == 21

\* The largest number of pages (.pdf) or paragraphs (.docx) of a file.
MaxPages == 3

\* The largest number of lines between the first and the last line of a text
\* given to extract_clauses.
MaxLines == 5

\* The largest number of sentences of a text given to summarize.
MaxSentences == 4

\* The number of threads that share one analyzer.
NumThreads == 2

\* The longest list of clauses, definitions or obligations given to
\* generate_key_points directly (one list of 12 clauses apart).
MaxItems == 4

\* ------------------------------------------------------------- characters

Quote == "\""

Whitespace == {" ", "\n", "\t", "\r"}

IsSpace(c) == c \in Whitespace

LowerMap ==
    [c \in {"A", "B", "C", "D", "E", "F", "G", "H", "I", "J", "K", "L", "M",
            "N", "O", "P", "Q", "R", "S", "T", "U", "V", "W", "X", "Y", "Z"} |->
        CASE c = "A" -> "a" [] c = "B" -> "b" [] c = "C" -> "c" [] c = "D" -> "d"
          [] c = "E" -> "e" [] c = "F" -> "f" [] c = "G" -> "g" [] c = "H" -> "h"
          [] c = "I" -> "i" [] c = "J" -> "j" [] c = "K" -> "k" [] c = "L" -> "l"
          [] c = "M" -> "m" [] c = "N" -> "n" [] c = "O" -> "o" [] c = "P" -> "p"
          [] c = "Q" -> "q" [] c = "R" -> "r" [] c = "S" -> "s" [] c = "T" -> "t"
          [] c = "U" -> "u" [] c = "V" -> "v" [] c = "W" -> "w" [] c = "X" -> "x"
          [] c = "Y" -> "y" [] c = "Z" -> "z"]

\* str.lower() of one character, and the folding re.IGNORECASE compares with.
Lower(c) == IF c \in DOMAIN LowerMap THEN LowerMap[c] ELSE c

LowerSeq(s) == [i \in 1..Len(s) |-> Lower(s[i])]

\* A character of \w: a letter, a digit or the underscore.
IsWordChar(c) ==
    \/ Lower(c) \in {LowerMap[u] : u \in DOMAIN LowerMap}
    \/ c \in {"0", "1", "2", "3", "4", "5", "6", "7", "8", "9", "_"}

IsSentenceEnd(c) == c \in {".", "!", "?"}

\* ----------------------------------------------------------- text helpers

\* s[a:b] of Python for 0 <= a <= b <= len(s).
Slice(s, a, b) == SubSeq(s, a + 1, b)

\* s[:k]
Prefix(s, k) == IF Len(s) <= k THEN s ELSE SubSeq(s, 1, k)

\* str.strip(): leading and trailing whitespace removed.
Strip(s) ==
    IF \A i \in 1..Len(s) : IsSpace(s[i]) THEN <<>>
    ELSE LET first == CHOOSE i \in 1..Len(s) :
                          ~IsSpace(s[i]) /\ \A j \in 1..(i - 1) : IsSpace(s[j])
             last  == CHOOSE i \in 1..Len(s) :
                          ~IsSpace(s[i]) /\ \A j \in (i + 1)..Len(s) : IsSpace(s[j])
         IN  SubSeq(s, first, last)

\* len(s.split()): the number of maximal runs of non-whitespace characters.
WordCount(s) ==
    Cardinality({i \in 1..Len(s) : ~IsSpace(s[i]) /\ (i = 1 \/ IsSpace(s[i - 1]))})

MinOf(S) == CHOOSE x \in S : \A y \in S : x <= y

\* sep.join(parts)
RECURSIVE Join(_, _)
Join(parts, sep) ==
    IF parts = <<>> THEN <<>>
    ELSE IF Len(parts) = 1 THEN parts[1]
    ELSE parts[1] \o sep \o Join(Tail(parts), sep)

\* The comparison of a pattern compiled without re.IGNORECASE.
MatchAtExact(s, kw, p) ==
    /\ p >= 0
    /\ p + Len(kw) <= Len(s)
    /\ \A k \in 1..Len(kw) : s[p + k] = kw[k]

\* The literal kw matches s at 0-based offset p, ignoring case
\* (re.escape + re.IGNORECASE).
MatchAt(s, kw, p) ==
    /\ p >= 0
    /\ p + Len(kw) <= Len(s)
    /\ \A k \in 1..Len(kw) : Lower(s[p + k]) = Lower(kw[k])

\* The starts the scanner keeps of a set H of match starts of width L: the
\* leftmost first, then the leftmost that begins at or after its end (an empty
\* match lets the scan advance by one).
RECURSIVE NonOverlapping(_, _, _)
NonOverlapping(H, L, from) ==
    LET c == {p \in H : p >= from}
    IN  IF c = {} THEN <<>>
        ELSE LET p == MinOf(c)
             IN  <<p>> \o NonOverlapping(c, L, IF L = 0 THEN p + 1 ELSE p + L)

\* pattern.finditer(s) for an escaped keyword: the 0-based starts of the
\* non-overlapping matches, left to right.
FindIter(s, kw) ==
    NonOverlapping({p \in 0..(Len(s) - Len(kw)) : MatchAt(s, kw, p)}, Len(kw), 0)

\* --------------------------------------------------------- TextAnalyzer

\* The verbs of definition_patterns[0], in the order of its alternation.
DefinitionVerbs ==
    << <<"m", "e", "a", "n", "s">>,
       <<"s", "h", "a", "l", "l", " ", "m", "e", "a", "n">>,
       <<"r", "e", "f", "e", "r", "s", " ", "t", "o">>,
       <<"i", "s", " ", "d", "e", "f", "i", "n", "e", "d", " ", "a", "s">> >>

\* obligation_patterns: the words of each pattern (an optional final "s" gives
\* two words), each between two \b.
obligation_patterns ==
    << { <<"s", "h", "a", "l", "l">>,
         <<"m", "u", "s", "t">>,
         <<"w", "i", "l", "l">>,
         <<"i", "s", " ", "r", "e", "q", "u", "i", "r", "e", "d", " ", "t", "o">>,
         <<"i", "s", " ", "o", "b", "l", "i", "g", "a", "t", "e", "d", " ", "t", "o">>,
         <<"a", "g", "r", "e", "e", "s", " ", "t", "o">> },
       { <<"r", "e", "s", "p", "o", "n", "s", "i", "b", "i", "l", "i", "t", "i", "e">>,
         <<"r", "e", "s", "p", "o", "n", "s", "i", "b", "i", "l", "i", "t", "i", "e", "s">>,
         <<"o", "b", "l", "i", "g", "a", "t", "i", "o", "n">>,
         <<"o", "b", "l", "i", "g", "a", "t", "i", "o", "n", "s">>,
         <<"d", "u", "t", "i", "e", "s">> } >>

\* The 1-based index of the quote that closes the one at 0-based p, or 0.
ClosingQuote(s, p) ==
    IF \A j \in (p + 2)..Len(s) : s[j] # Quote THEN 0
    ELSE CHOOSE j \in (p + 2)..Len(s) :
             s[j] = Quote /\ \A k \in (p + 2)..(j - 1) : s[k] # Quote

\* The length of the whitespace run that begins at 0-based offset q.
SpaceRun(s, q) ==
    CHOOSE k \in 0..(Len(s) - q) :
        /\ \A j \in 1..k : IsSpace(s[q + j])
        /\ (q + k = Len(s) \/ ~IsSpace(s[q + k + 1]))

\* The end (0-based, exclusive) of the match of
\*   "([^"]+)"\s+(?:means|shall mean|refers to|is defined as)
\* that begins at 0-based p, or -1 when none begins there.
DefinitionMatchEnd(s, p) ==
    IF p >= Len(s) \/ s[p + 1] # Quote THEN -1
    ELSE LET q == ClosingQuote(s, p)
         IN  IF q = 0 \/ q = p + 2 THEN -1
             ELSE LET w == SpaceRun(s, q)
                      verbs == {i \in 1..Len(DefinitionVerbs) :
                                    MatchAt(s, DefinitionVerbs[i], q + w)}
                  IN  IF w = 0 \/ verbs = {} THEN -1
                      ELSE q + w + Len(DefinitionVerbs[MinOf(verbs)])

\* re.finditer over the starts H: the leftmost match, then the leftmost that
\* begins at or after its end.
RECURSIVE DefinitionMatches(_, _, _)
DefinitionMatches(s, H, from) ==
    LET c == {p \in H : p >= from}
    IN  IF c = {} THEN <<>>
        ELSE LET p == MinOf(c)
             IN  <<p>> \o DefinitionMatches(s, c, DefinitionMatchEnd(s, p))

\* An entry whose context ends 100 characters after the match.
DefinitionEntryNarrow(text, p) ==
    LET start == IF p - 50 > 0 THEN p - 50 ELSE 0
        mend  == DefinitionMatchEnd(text, p)
        end   == IF mend + 100 < Len(text) THEN mend + 100 ELSE Len(text)
    IN  [term       |-> Slice(text, p + 1, ClosingQuote(text, p) - 1),
         definition |-> Strip(Slice(text, start, end))]

\* One entry of the list of extract_definitions, for the match at p.
DefinitionEntry(text, p) ==
    LET start == IF p - 50 > 0 THEN p - 50 ELSE 0
        mend  == DefinitionMatchEnd(text, p)
        end   == IF mend + 150 < Len(text) THEN mend + 150 ELSE Len(text)
    IN  [term       |-> Slice(text, p + 1, ClosingQuote(text, p) - 1),
         definition |-> Strip(Slice(text, start, end))]

AllDefinitions(text) ==
    LET H  == {p \in 0..(Len(text) - 1) : DefinitionMatchEnd(text, p) >= 0}
        ms == DefinitionMatches(text, H, 0)
    IN  [i \in 1..Len(ms) |-> DefinitionEntry(text, ms[i])]

\* extract_definitions without its final slice.
extract_definitions_uncapped(text) == AllDefinitions(text)

extract_definitions(text) == Prefix(AllDefinitions(text), 20)

\* The ascending sequence of a finite set of integers.
RECURSIVE Ascending(_)
Ascending(S) ==
    IF S = {} THEN <<>>
    ELSE LET m == MinOf(S) IN <<m>> \o Ascending(S \ {m})

\* The 1-based index of the last character of the run of characters outside
\* [.!?] that begins at i.
SegmentEnd(s, i) ==
    CHOOSE j \in i..Len(s) :
        /\ (j = Len(s) \/ IsSentenceEnd(s[j + 1]))
        /\ \A k \in i..j : ~IsSentenceEnd(s[k])

\* re.split(r'[.!?]+', text) without its empty pieces (an empty piece strips
\* to the empty sentence, which every caller skips).
SplitSentences(s) ==
    LET starts == Ascending({i \in 1..Len(s) :
                      ~IsSentenceEnd(s[i]) /\ (i = 1 \/ IsSentenceEnd(s[i - 1]))})
    IN  [n \in 1..Len(starts) |-> SubSeq(s, starts[n], SegmentEnd(s, starts[n]))]

\* re.search(r'\b(?:w)\b', s, re.IGNORECASE) for a word w that begins and
\* ends with a word character.
HasWord(s, w) ==
    \E p \in 0..(Len(s) - Len(w)) :
        /\ MatchAt(s, w, p)
        /\ (p = 0 \/ ~IsWordChar(s[p]))
        /\ (p + Len(w) = Len(s) \/ ~IsWordChar(s[p + Len(w) + 1]))

\* A loop that appends the sentence whatever its length.
IsObligationAnyLength(sentence) ==
    /\ sentence # <<>>
    /\ \E i \in 1..Len(obligation_patterns) :
           \E w \in obligation_patterns[i] : HasWord(sentence, w)

\* The loop over obligation_patterns: the first pattern found decides, and the
\* sentence is appended when it is longer than 20 characters.
IsObligation(sentence) ==
    /\ sentence # <<>>
    /\ \E i \in 1..Len(obligation_patterns) :
           \E w \in obligation_patterns[i] : HasWord(sentence, w)
    /\ Len(sentence) > 20

\* x[:200] + '...' if len(x) > 200 else x
Truncate200(x) == IF Len(x) > 200 THEN SubSeq(x, 1, 200) \o <<".", ".", ".">> ELSE x

AllObligations(text) ==
    LET segments  == SplitSentences(text)
        sentences == [i \in 1..Len(segments) |-> Strip(segments[i])]
        kept      == SelectSeq(sentences, IsObligation)
    IN  [i \in 1..Len(kept) |-> Truncate200(kept[i])]

extract_obligations(text) == Prefix(AllObligations(text), 15)

\* The marker put before and after a highlighted match.
Marker == <<"*", "*">>

\* re.sub over the matches ms (0-based starts, width L) of context: each
\* match is replaced by itself between two markers; from is the 0-based
\* offset the copy has reached.
RECURSIVE Wrap(_, _, _, _)
Wrap(context, ms, L, from) ==
    IF ms = <<>> THEN Slice(context, from, Len(context))
    ELSE Slice(context, from, Head(ms))
           \o Marker \o Slice(context, Head(ms), Head(ms) + L) \o Marker
           \o Wrap(context, Tail(ms), L, Head(ms) + L)

\* A substitution that stops after the first match (count=1).
HighlightFirst(context, kw) == Wrap(context, Prefix(FindIter(context, kw), 1), Len(kw), 0)

\* re.sub(pattern, lambda m: f"**{m.group()}**", context)
Highlight(context, kw) == Wrap(context, FindIter(context, kw), Len(kw), 0)

\* The context of the match of kw at 0-based p: the window, stripped, then
\* highlighted.
Snippet(text, kw, p) ==
    LET start == IF p - 100 > 0 THEN p - 100 ELSE 0
        end   == IF p + Len(kw) + 100 < Len(text) THEN p + Len(kw) + 100 ELSE Len(text)
    IN  Highlight(Strip(Slice(text, start, end)), kw)

\* The list matches of one keyword, before the slice.
KeywordMatches(text, kw) ==
    LET ms == FindIter(text, kw)
    IN  [i \in 1..Len(ms) |-> Snippet(text, kw, ms[i])]

\* search_keywords that keeps a key for every keyword.
search_keywords_all_keys(text, keywords) ==
    [kw \in {keywords[i] : i \in 1..Len(keywords)} |->
        Prefix(KeywordMatches(text, kw), 10)]

\* search_keywords: the dictionary results, a function from the keywords that
\* have a match to their first 10 snippets.
search_keywords(text, keywords) ==
    [kw \in {k \in {keywords[i] : i \in 1..Len(keywords)} : FindIter(text, k) # <<>>} |->
        Prefix(KeywordMatches(text, kw), 10)]

\* A character of \d.
IsDigit(c) == c \in {"0", "1", "2", "3", "4", "5", "6", "7", "8", "9"}

\* A character [A-Z] matches under re.IGNORECASE: a letter of either case.
IsLetter(c) == Lower(c) \in {LowerMap[u] : u \in DOMAIN LowerMap}

\* The labels of clause_patterns[0], in the order of its alternation.
ClauseLabels ==
    << <<"C", "L", "A", "U", "S", "E">>,
       <<"A", "r", "t", "i", "c", "l", "e">>,
       <<"S", "e", "c", "t", "i", "o", "n">>,
       <<"P", "a", "r", "a", "g", "r", "a", "p", "h">> >>

\* text.split('\n'): the pieces between line feeds, empty ones included.
RECURSIVE SplitLines(_)
SplitLines(s) ==
    IF \A i \in 1..Len(s) : s[i] # "\n" THEN <<s>>
    ELSE LET j == CHOOSE i \in 1..Len(s) :
                      s[i] = "\n" /\ \A k \in 1..(i - 1) : s[k] # "\n"
         IN  <<SubSeq(s, 1, j - 1)>> \o SplitLines(SubSeq(s, j + 1, Len(s)))

\* The length of the run of digits that begins at 0-based offset q.
DigitRun(s, q) ==
    CHOOSE k \in 0..(Len(s) - q) :
        /\ \A j \in 1..k : IsDigit(s[q + j])
        /\ (q + k = Len(s) \/ ~IsDigit(s[q + k + 1]))

\* The length of the run of [.\d] that begins at 0-based offset q.
NumberRun(s, q) ==
    CHOOSE k \in 0..(Len(s) - q) :
        /\ \A j \in 1..k : (IsDigit(s[q + j]) \/ s[q + j] = ".")
        /\ (q + k = Len(s) \/ ~(IsDigit(s[q + k + 1]) \/ s[q + k + 1] = "."))

\* re.search of clause_patterns[0] in a line, with re.IGNORECASE:
\*   (?:^|\n)\s*(?:CLAUSE|Article|Section|Paragraph)\s+(\d+[.\d]*)[:\s]
\* A line holds no line feed, so the match begins at the start of the line.
\* The value is group 1, or the empty sequence when the line does not match.
ClauseLabelMatch(line) ==
    LET w      == SpaceRun(line, 0)
        labels == {i \in 1..Len(ClauseLabels) : MatchAt(line, ClauseLabels[i], w)}
    IN  IF labels = {} THEN <<>>
        ELSE LET a == w + Len(ClauseLabels[MinOf(labels)])
                 r == SpaceRun(line, a)
                 d == a + r
             IN  IF r = 0 \/ d >= Len(line) \/ ~IsDigit(line[d + 1]) THEN <<>>
                 ELSE LET n == NumberRun(line, d)
                      IN  IF /\ d + n < Len(line)
                             /\ (line[d + n + 1] = ":" \/ IsSpace(line[d + n + 1]))
                          THEN Slice(line, d, d + n)
                          ELSE <<>>

\* re.search of clause_patterns[1] in a line, with re.IGNORECASE:
\*   (?:^|\n)\s*(\d+)\.\s+[A-Z]
\* The value is group 1, or the empty sequence when the line does not match.
ClauseListMatch(line) ==
    LET w == SpaceRun(line, 0)
        n == DigitRun(line, w)
    IN  IF n = 0 \/ w + n >= Len(line) \/ line[w + n + 1] # "." THEN <<>>
        ELSE LET r == SpaceRun(line, w + n + 1)
                 e == w + n + 1 + r
             IN  IF r = 0 \/ e >= Len(line) \/ ~IsLetter(line[e + 1]) THEN <<>>
                 ELSE Slice(line, w, w + n)

\* The loop over clause_patterns: the first pattern that matches decides
\* (break).  Both patterns have a group 1 that takes part in every match, so
\* 'number' is always match.group(1).
ClauseNumber(line) ==
    IF ClauseLabelMatch(line) # <<>> THEN ClauseLabelMatch(line)
    ELSE ClauseListMatch(line)

\* A context of four lines.
ClauseContext4(lines, i) ==
    Strip(Join(SubSeq(lines, i, IF i + 3 < Len(lines) THEN i + 3 ELSE Len(lines)), <<" ">>))

\* ' '.join(lines[i:min(i+5, len(lines))]).strip(), for the 1-based line i.
ClauseContext(lines, i) ==
    Strip(Join(SubSeq(lines, i, IF i + 4 < Len(lines) THEN i + 4 ELSE Len(lines)), <<" ">>))

\* The dictionary appended for the 1-based line i.
ClauseEntry(lines, i) ==
    [number |-> ClauseNumber(lines[i]),
     text   |-> Truncate200(ClauseContext(lines, i))]

\* The 1-based lines a pattern matches, in order.
ClauseLines(lines) == Ascending({i \in 1..Len(lines) : ClauseNumber(lines[i]) # <<>>})

\* extract_clauses that puts each clause before the ones found so far.
extract_clauses_prepend(text) ==
    LET lines == SplitLines(text)
        hits  == ClauseLines(lines)
    IN  [k \in 1..Len(hits) |-> ClauseEntry(lines, hits[Len(hits) + 1 - k])]

extract_clauses(text) ==
    LET lines == SplitLines(text)
        hits  == ClauseLines(lines)
    IN  [k \in 1..Len(hits) |-> ClauseEntry(lines, hits[k])]

\* ---------------------------------------------------- DocumentSummarizer

\* self.max_summary_sentences = 10
max_summary_sentences == 10

\* The string summarize returns when no sentence is left.
NoContent ==
    <<"N", "o", " ", "c", "o", "n", "t", "e", "n", "t", " ", "t", "o", " ", "s", "u", "m", "m", "a", "r", "i", "z", "e", ".">>

\* important_keywords of _score_sentences.
important_keywords ==
    << <<"s", "h", "a", "l", "l">>,
       <<"m", "u", "s", "t">>,
       <<"a", "g", "r", "e", "e", "m", "e", "n", "t">>,
       <<"p", "a", "r", "t", "y">>,
       <<"p", "a", "r", "t", "i", "e", "s">>,
       <<"o", "b", "l", "i", "g", "a", "t", "i", "o", "n">>,
       <<"r", "i", "g", "h", "t", "s">>,
       <<"l", "i", "a", "b", "i", "l", "i", "t", "y">>,
       <<"w", "a", "r", "r", "a", "n", "t", "y">>,
       <<"i", "n", "d", "e", "m", "n", "i", "f", "y">>,
       <<"b", "r", "e", "a", "c", "h">>,
       <<"t", "e", "r", "m", "i", "n", "a", "t", "i", "o", "n">>,
       <<"j", "u", "r", "i", "s", "d", "i", "c", "t", "i", "o", "n">>,
       <<"d", "i", "s", "p", "u", "t", "e">>,
       <<"c", "l", "a", "u", "s", "e">>,
       <<"s", "e", "c", "t", "i", "o", "n">>,
       <<"p", "a", "y", "m", "e", "n", "t">>,
       <<"c", "o", "m", "p", "e", "n", "s", "a", "t", "i", "o", "n">>,
       <<"d", "a", "m", "a", "g", "e", "s">>,
       <<"f", "o", "r", "c", "e", " ", "m", "a", "j", "e", "u", "r", "e">>,
       <<"c", "o", "n", "f", "i", "d", "e", "n", "t", "i", "a", "l">> >>

\* A sentence filter that keeps the sentences of 20 characters.
KeepsSentenceFrom20(s) == Len(s) >= 20

\* s.strip() and len(s.strip()) > 20, of the stripped piece s.
KeepsSentence(s) == Len(s) > 20

\* _split_sentences: the pieces between runs of [.!?], stripped, that are
\* longer than 20 characters.
split_sentences(text) ==
    LET segments == SplitSentences(text)
    IN  SelectSeq([i \in 1..Len(segments) |-> Strip(segments[i])], KeepsSentence)

\* w in s
Contains(s, w) ==
    \E p \in 0..(Len(s) - Len(w)) : \A k \in 1..Len(w) : s[p + k] = w[k]

\* A score that adds 2 for every occurrence of a keyword.
BaseScorePerOccurrence(sentences, idx) ==
    LET sentence       == sentences[idx + 1]
        sentence_lower == LowerSeq(sentence)
    IN  2 * Cardinality({x \in (1..Len(important_keywords)) \X (0..Len(sentence)) :
                             LET w == important_keywords[x[1]]
                             IN  /\ x[2] + Len(w) <= Len(sentence)
                                 /\ \A k \in 1..Len(w) : sentence_lower[x[2] + k] = w[k]})
        + (IF \E i \in 1..Len(sentence) : IsDigit(sentence[i]) THEN 1 ELSE 0)
        + (IF \E i \in 1..Len(sentence) : sentence[i] = Quote THEN 2 ELSE 0)
        + (IF 5 * idx < Len(sentences) THEN 1 ELSE 0)
        - (IF Len(sentence) > 500 THEN 1 ELSE 0)

\* The score of sentences[idx] (idx from 0) before score *= position_score.
BaseScore(sentences, idx) ==
    LET sentence       == sentences[idx + 1]
        sentence_lower == LowerSeq(sentence)
    IN  2 * Cardinality({i \in 1..Len(important_keywords) :
                             Contains(sentence_lower, important_keywords[i])})
        + (IF \E i \in 1..Len(sentence) : IsDigit(sentence[i]) THEN 1 ELSE 0)
        + (IF \E i \in 1..Len(sentence) : sentence[i] = Quote THEN 2 ELSE 0)
        + (IF 5 * idx < Len(sentences) THEN 1 ELSE 0)
        - (IF Len(sentence) > 500 THEN 1 ELSE 0)

\* score * position_score with position_score = 1.0 - (idx / n) * 0.3, taken
\* exactly and multiplied by 10 * n, n the number of sentences: the scores of
\* one call share n, so they compare as these integers do.
ScaledScore(sentences, idx) ==
    BaseScore(sentences, idx) * (10 * Len(sentences) - 3 * idx)

\* position_score = 1.0 - (idx / len(sentences)) * 0.3, as the fraction
\* num / den it is when taken exactly: den = 10 * len(sentences) holds the
\* divisor of idx / len(sentences).
PositionScore(sentences, idx) ==
    [num |-> 10 * Len(sentences) - 3 * idx, den |-> 10 * Len(sentences)]

\* _score_sentences(sentences, full_text): the tuples (sentence, score,
\* original_index), the score as the fraction score * position_score.  The
\* loop makes no tuple, and no division, for an empty list.
score_sentences(sentences, full_text) ==
    [i \in 1..Len(sentences) |->
        <<sentences[i],
          [num |-> BaseScore(sentences, i - 1) * PositionScore(sentences, i - 1).num,
           den |-> PositionScore(sentences, i - 1).den],
          i - 1>>]

\* A ranking that puts the later of two sentences of equal score first.
RECURSIVE RankByScoreLatestFirst(_, _)
RankByScoreLatestFirst(sentences, S) ==
    IF S = {} THEN <<>>
    ELSE LET best == CHOOSE i \in S : \A j \in S :
                         \/ ScaledScore(sentences, i) > ScaledScore(sentences, j)
                         \/ (ScaledScore(sentences, i) = ScaledScore(sentences, j) /\ i >= j)
         IN  <<best>> \o RankByScoreLatestFirst(sentences, S \ {best})

\* scored_sentences.sort(key=lambda x: x[1], reverse=True), as the indices
\* (from 0) of the set S in their order after the sort: the sort is stable,
\* reverse=True included, so equal scores stay in their original order.
RECURSIVE RankByScore(_, _)
RankByScore(sentences, S) ==
    IF S = {} THEN <<>>
    ELSE LET best == CHOOSE i \in S : \A j \in S :
                         \/ ScaledScore(sentences, i) > ScaledScore(sentences, j)
                         \/ (ScaledScore(sentences, i) = ScaledScore(sentences, j) /\ i <= j)
         IN  <<best>> \o RankByScore(sentences, S \ {best})

\* A slice that keeps one element more.
PyPrefixInclusive(x, k) == Prefix(x, k + 1)

\* x[:k] of Python, for any integer k: a negative k counts from the end.
PyPrefix(x, k) ==
    IF k >= 0 THEN Prefix(x, k)
    ELSE IF Len(x) + k > 0 THEN SubSeq(x, 1, Len(x) + k) ELSE <<>>

\* summarize(text, max_sentences).  The argument is <<>> for None and <<k>>
\* for the integer k.
summarize(text, max_sentences) ==
    LET limit     == IF max_sentences = <<>> THEN max_summary_sentences
                     ELSE max_sentences[1]
        sentences == split_sentences(text)
    IN  IF sentences = <<>> THEN NoContent
        ELSE LET ranked == RankByScore(sentences, 0..(Len(sentences) - 1))
                 top    == PyPrefix(ranked, limit)
                 order  == Ascending({top[i] : i \in 1..Len(top)})
             IN  Join([i \in 1..Len(order) |-> sentences[order[i] + 1]], <<" ">>)

\* The character U+2022 (bullet), one element of a text.
Bullet == "U+2022"

\* str(n) of an integer n >= 0, as the f-strings format len(...).
RECURSIVE DecimalString(_)
DecimalString(n) ==
    LET digit == <<"0", "1", "2", "3", "4", "5", "6", "7", "8", "9">>[(n % 10) + 1]
    IN  IF n < 10 THEN <<digit>> ELSE DecimalString(n \div 10) \o <<digit>>

\* critical_terms of generate_key_points.
critical_terms ==
    << <<"t", "e", "r", "m", "i", "n", "a", "t", "i", "o", "n">>,
       <<"l", "i", "a", "b", "i", "l", "i", "t", "y">>,
       <<"w", "a", "r", "r", "a", "n", "t", "y">>,
       <<"i", "n", "d", "e", "m", "n", "i", "f", "i", "c", "a", "t", "i", "o", "n">>,
       <<"d", "i", "s", "p", "u", "t", "e", " ", "r", "e", "s", "o", "l", "u", "t", "i", "o", "n">>,
       <<"c", "o", "n", "f", "i", "d", "e", "n", "t", "i", "a", "l", "i", "t", "y">>,
       <<"p", "a", "y", "m", "e", "n", "t", " ", "t", "e", "r", "m", "s">> >>

\* f"Document contains {len(clauses)} identifiable clauses/sections"
ClauseCountLine(n) ==
    <<"D", "o", "c", "u", "m", "e", "n", "t", " ", "c", "o", "n", "t", "a", "i", "n", "s", " ">> \o DecimalString(n)
    \o <<" ", "i", "d", "e", "n", "t", "i", "f", "i", "a", "b", "l", "e", " ", "c", "l", "a", "u", "s", "e", "s", "/", "s", "e", "c", "t", "i", "o", "n", "s">>

\* f"Found {len(definitions)} key definitions"
DefinitionCountLine(n) ==
    <<"F", "o", "u", "n", "d", " ">> \o DecimalString(n) \o <<" ", "k", "e", "y", " ", "d", "e", "f", "i", "n", "i", "t", "i", "o", "n", "s">>

\* f"Identified {len(obligations)} obligation statements"
ObligationCountLine(n) ==
    <<"I", "d", "e", "n", "t", "i", "f", "i", "e", "d", " ">> \o DecimalString(n)
    \o <<" ", "o", "b", "l", "i", "g", "a", "t", "i", "o", "n", " ", "s", "t", "a", "t", "e", "m", "e", "n", "t", "s">>

\* f"(bullet) Defines '{defn['term']}'"
DefinitionLine(defn) ==
    <<Bullet>> \o <<" ", "D", "e", "f", "i", "n", "e", "s", " ", "'">> \o defn.term \o <<"'">>

\* An obligation line that is cut after 200 characters.
ObligationLine200(obl) ==
    <<Bullet, " ">> \o Prefix(obl, 200) \o <<".", ".", ".">>

\* f"(bullet) {obl[:150]}..."
ObligationLine(obl) ==
    <<Bullet, " ">> \o Prefix(obl, 150) \o <<".", ".", ".">>

\* f"Critical sections present: {', '.join(found_terms)}"
CriticalLine(found_terms) ==
    <<"C", "r", "i", "t", "i", "c", "a", "l", " ", "s", "e", "c", "t", "i", "o", "n", "s", " ", "p", "r", "e", "s", "e", "n", "t", ":", " ">>
    \o Join(found_terms, <<",", " ">>)

\* generate_key_points(text, clauses, definitions, obligations)
generate_key_points(text, clauses, definitions, obligations) ==
    LET text_lower   == LowerSeq(text)
        InText(term) == Contains(text_lower, term)
        found_terms  == SelectSeq(critical_terms, InText)
        first_defs   == Prefix(definitions, 3)
        first_obls   == Prefix(obligations, 3)
    IN  (IF clauses # <<>> THEN <<ClauseCountLine(Len(clauses))>> ELSE <<>>)
        \o (IF definitions # <<>>
            THEN <<DefinitionCountLine(Len(definitions))>>
                 \o [i \in 1..Len(first_defs) |-> DefinitionLine(first_defs[i])]
            ELSE <<>>)
        \o (IF obligations # <<>>
            THEN <<ObligationCountLine(Len(obligations))>>
                 \o [i \in 1..Len(first_obls) |-> ObligationLine(first_obls[i])]
            ELSE <<>>)
        \o (IF found_terms # <<>> THEN <<CriticalLine(found_terms)>> ELSE <<>>)

\* ------------------------------------------------------- DocumentParser

\* SUPPORTED_FORMATS = ['.pdf', '.docx', '.txt']
SUPPORTED_FORMATS ==
    << <<".", "p", "d", "f">>, <<".", "d", "o", "c", "x">>, <<".", "t", "x", "t">> >>

\* A file of the file system, as parse sees it: whether os.path.exists finds
\* it, the extension os.path.splitext gives, the failure its decoding raises
\* (type "none": it decodes), and its content, block by block: the pages of a
\* PDF, the paragraphs of a DOCX, the pieces written to a text file.
NoFault == [type |-> "none", text |-> ""]

\* An existence check that lets every path through.
os_path_exists_always(f) == TRUE

\* os.path.exists(file_path)
os_path_exists(f) == f.exists

\* What os.path.exists(file_path) raises: nothing (type "none") for a path,
\* found or not, and TypeError for a file_path that is no path, such as None.
ExistsFault(f) == IF f.exists THEN NoFault ELSE f.fault

\* An extension check that lets every extension through.
IsSupportedAlways(ext) == TRUE

\* ext not in self.SUPPORTED_FORMATS, negated: ext is the lowered extension.
IsSupported(ext) == \E i \in 1..Len(SUPPORTED_FORMATS) : SUPPORTED_FORMATS[i] = ext

\* What opening the file raises: a path that is gone by then raises
\* FileNotFoundError, a file that cannot be decoded raises its own failure.
DecodeFault(f) ==
    IF ~f.exists THEN [type |-> "FileNotFoundError", text |-> "No such file or directory"]
    ELSE f.fault

\* open(file_path, 'r') translates "\r\n" and "\r" to "\n" (newline=None).
UniversalNewlines(s) ==
    LET marked == [i \in 1..Len(s) |->
                     IF s[i] # "\r" THEN s[i]
                     ELSE IF i < Len(s) /\ s[i + 1] = "\n" THEN "" ELSE "\n"]
        Kept(c) == c # ""
    IN  SelectSeq(marked, Kept)

\* '\n'.join(text) over the pages' extract_text().
parse_pdf(f) == Join(f.body, <<"\n">>)

\* if paragraph.text.strip()
NonBlank(paragraph) == Strip(paragraph) # <<>>

\* '\n'.join(text) over the paragraphs that are not blank.
parse_docx(f) == Join(SelectSeq(f.body, NonBlank), <<"\n">>)

\* file.read() of the file opened in text mode.
parse_txt(f) == UniversalNewlines(Join(f.body, <<>>))

\* The branch of parse that the lowered extension selects.
Decoded(f, ext) ==
    IF ext = SUPPORTED_FORMATS[1] THEN parse_pdf(f)
    ELSE IF ext = SUPPORTED_FORMATS[2] THEN parse_docx(f)
    ELSE parse_txt(f)

FormatLabel(ext) ==
    IF ext = SUPPORTED_FORMATS[1] THEN "Error parsing PDF"
    ELSE IF ext = SUPPORTED_FORMATS[2] THEN "Error parsing DOCX"
    ELSE "Error parsing TXT"

\* The except clause of _parse_pdf, _parse_docx and _parse_txt:
\* raise RuntimeError(f"Error parsing ...: {str(e)}")
FormatError(ext, cause) ==
    [type |-> "RuntimeError", msg |-> <<FormatLabel(ext), cause.text>>]

\* An except clause of parse that drops the cause from its message.
ParseErrorNoCause(e) == [type |-> "RuntimeError", msg |-> <<"Error parsing document">>]

\* The except clause of parse: raise RuntimeError(f"Error parsing document: {str(e)}")
ParseError(e) == [type |-> "RuntimeError", msg |-> <<"Error parsing document">> \o e.msg]

\* ------------------------------------------------- LegalDocumentAnalyzer

\* A length test that is off by one.
TooShortBelow49(text) == Len(text) = 0 \/ Len(Strip(text)) < 49

\* not text or len(text.strip()) < 50
TooShort(text) == Len(text) = 0 \/ Len(Strip(text)) < 50

\* A results record whose text_length is taken after stripping.
AnalysisResultStripped(text) ==
    [kind        |-> "analysis",
     success     |-> TRUE,
     text_length |-> Len(Strip(text)),
     word_count  |-> WordCount(text),
     clauses     |-> extract_clauses(text),
     definitions |-> extract_definitions(text),
     obligations |-> extract_obligations(text),
     summary     |-> summarize(text, <<>>),
     key_points  |-> generate_key_points(text, extract_clauses(text),
                         extract_definitions(text), extract_obligations(text)),
     full_text   |-> Prefix(text, 1000)]

\* The dictionary results of analyze_document.
AnalysisResult(text) ==
    [kind        |-> "analysis",
     success     |-> TRUE,
     text_length |-> Len(text),
     word_count  |-> WordCount(text),
     clauses     |-> extract_clauses(text),
     definitions |-> extract_definitions(text),
     obligations |-> extract_obligations(text),
     summary     |-> summarize(text, <<>>),
     key_points  |-> generate_key_points(text, extract_clauses(text),
                         extract_definitions(text), extract_obligations(text)),
     full_text   |-> Prefix(text, 1000)]

\* The sub-operations analyze_document calls once the text is long enough.
AnalyzeCalls ==
    <<"extract_clauses", "extract_definitions", "extract_obligations",
      "summarize", "generate_key_points">>

RECURSIVE SumOver(_, _)
SumOver(r, keys) ==
    IF keys = {} THEN 0
    ELSE LET k == CHOOSE x \in keys : TRUE
         IN  Len(r[k]) + SumOver(r, keys \ {k})

\* A total that counts the keys found.
TotalMatchesKeys(r) == Cardinality(DOMAIN r)

\* sum(len(matches) for matches in search_results.values())
TotalMatches(r) == SumOver(r, DOMAIN r)

\* The dictionary results of search_document.
SearchResult(kws, found) ==
    [kind          |-> "search",
     success       |-> TRUE,
     keywords      |-> kws,
     results       |-> found,
     total_matches |-> TotalMatches(found)]

\* ---------------------------------------------------------------- inputs

Units ==
    { <<"\"", "T", "\"", " ", "M", "e", "a", "n", "s", " ", "i", "t", ".", " ">>,
      <<"T", "h", "e", " ", "P", "a", "r", "t", "y", " ", "s", "h", "a", "l", "l",
        " ", "p", "a", "y", " ", "i", "t", ".", " ">>,
      <<"H", "e", " ", "m", "u", "s", "t", " ", "g", "o", ".", " ">>,
      <<"a", "b", ",", " ", "A", "B", " ">>,
      <<"x", "y", "z", "x", "y", "z", "x">>,
      <<"0", "1", "2", "3", "4", "5", "6", "7", "8", "9">>,
      <<" ", "\r", "\n">>,
      <<"w", "e", " ", "w", "i", "l", "l", " ", "p", "a", "y", ",", " ">> }

Extensions ==
    { <<".", "p", "d", "f">>, <<".", "d", "o", "c", "x">>, <<".", "t", "x", "t">>,
      <<".", "T", "X", "T">>, <<".", "x", "y", "z">>, <<>> }

Faults ==
    { [type |-> "PdfReadError", text |-> "EOF marker not found"],
      [type |-> "UnicodeDecodeError", text |-> "invalid start byte"],
      [type |-> "PermissionError", text |-> "Permission denied"] }

\* The file_path None: os.path.exists raises TypeError for it.
NotAPath ==
    [exists |-> FALSE, ext |-> <<>>,
     fault  |-> [type |-> "TypeError", text |-> "stat: path should be string, not NoneType"],
     body   |-> <<>>]

\* The paths of the model: missing ones, files that fail to decode, and files
\* of n equal blocks (text files up to MaxRep blocks, others up to MaxPages);
\* and the argument that is no path.
Files ==
    {NotAPath}
    \cup {[exists |-> FALSE, ext |-> e, fault |-> NoFault, body |-> <<>>] : e \in Extensions}
    \cup {[exists |-> TRUE, ext |-> e, fault |-> x, body |-> <<>>] :
             e \in Extensions, x \in Faults}
    \cup UNION {{[exists |-> TRUE, ext |-> e, fault |-> NoFault,
                  body |-> [i \in 1..n |-> u]] :
                     n \in 0..(IF e = SUPPORTED_FORMATS[3] THEN MaxRep ELSE MaxPages)} :
                 e \in Extensions, u \in Units}

\* The texts the operations of TextAnalyzer are called with directly.
Texts == {Join([i \in 1..n |-> u], <<>>) : n \in 0..MaxRep, u \in Units}

KeywordLists ==
    { <<>>,
      << <<"a", "b">> >>,
      << <<"A", "B">>, <<"a", "b">> >>,
      << <<"z", "z">> >>,
      << <<"z", "z">>, <<"A", "b">> >>,
      << <<"a", "b">>, <<"a", "b">> >>,
      << <<"B", " ">> >>,
      << <<"i", "t">>, <<>> >>,
      << <<"x", "y", "z", "x">>, <<"I", "T">>, <<".">> >> }

\* The empty keyword matches at every offset: it is searched in short texts.
Searchable(t, kws) ==
    (\E i \in 1..Len(kws) : kws[i] = <<>>) => Len(t) <= 50

\* The lines of the texts given to extract_clauses: labelled markers (one
\* with nothing after its number), list markers (one followed by a lower-case
\* letter), and lines that are no marker.
LinePool ==
    { <<"S", "e", "c", "t", "i", "o", "n", " ", "1", ":", " ", "S", "c", "o", "p", "e">>,
      <<" ", "A", "R", "T", "I", "C", "L", "E", " ", "2", ".", "1", " ", "x">>,
      <<"S", "e", "c", "t", "i", "o", "n", " ", "3">>,
      <<"1", ".", " ", "P", "a", "y", "m", "e", "n", "t">>,
      <<"2", ".", " ", "f", "e", "e", "s">>,
      <<"C", "l", "a", "u", "s", "e", " ", "o", "n", "e">>,
      <<>>,
      <<"w", "e", " ", "a", "g", "r", "e", "e", " ", "t", "o", " ", "p", "a", "y", " ", "t", "h", "e", " ", "f", "e", "e", " ", "o", "n", " ", "t", "h", "e", " ", "f", "i", "r", "s", "t", " ", "d", "a", "y", " ", "o", "f", " ", "e", "a", "c", "h", " ", "m", "o", "n", "t", "h", " ", "a", "n", "d", " ">> }

\* A first line, up to MaxLines equal lines, and a last line.
ClauseTexts ==
    {Join(<<a>> \o [i \in 1..n |-> b] \o <<c>>, <<"\n">>) :
         a \in LinePool, b \in LinePool, c \in LinePool, n \in 0..MaxLines}

\* The sentences of the texts given to summarize, each with its end: one
\* with legal vocabulary, two without, one of 20 characters.
SentencePool ==
    { <<"T", "h", "e", " ", "p", "a", "r", "t", "y", " ", "s", "h", "a", "l", "l", " ", "p", "a", "y", " ", "t", "h", "e", " ", "f", "e", "e", ".", " ">>,
      <<"P", "l", "a", "i", "n", " ", "w", "o", "r", "d", "s", " ", "a", "r", "e", " ", "u", "s", "e", "d", " ", "h", "e", "r", "e", ".", " ">>,
      <<"T", "w", "e", "n", "t", "y", " ", "o", "n", "e", " ", "c", "h", "a", "r", "a", "c", "t", "e", "r", "s", "!", " ">>,
      <<"E", "x", "a", "c", "t", "l", "y", " ", "t", "w", "e", "n", "t", "y", " ", "c", "h", "a", "r", "s", "?", "!", " ">> }

\* The texts of up to MaxSentences sentences.
SummaryTexts ==
    UNION {{Join(f, <<>>) : f \in [1..n -> SentencePool]} : n \in 0..MaxSentences}

\* The sentences of the texts given to _score_sentences: one with two
\* keywords, each twice and once in capitals, and a digit; one with a quoted
\* term; one with none of these.
ScorePool ==
    { <<"T", "h", "e", " ", "P", "A", "R", "T", "Y", " ", "s", "h", "a", "l", "l", " ", "p", "a", "y", ";", " ", "t", "h", "e", " ", "p", "a", "r", "t", "y", " ", "s", "h", "a", "l", "l", " ", "p", "a", "y", " ", "5", " ", "f", "e", "e", "s", ".", " ">>,
      <<"H", "e", " ", "s", "a", "i", "d", " ", "\"", "y", "e", "s", "\"", " ", "t", "o", " ", "t", "h", "e", " ", "p", "l", "a", "i", "n", " ", "w", "o", "r", "d", "s", "!", " ">>,
      <<"P", "l", "a", "i", "n", " ", "w", "o", "r", "d", "s", " ", "a", "r", "e", " ", "u", "s", "e", "d", " ", "h", "e", "r", "e", ".", " ">> }

\* Two sentences of 500 and of 501 characters.
LongPool ==
    { [i \in 1..500 |-> "x"] \o <<".", " ">>, [i \in 1..501 |-> "x"] \o <<".", " ">> }

\* The texts of up to MaxSentences sentences of ScorePool, and the texts of
\* one long sentence between two sentences of ScorePool or none.
ScoreTexts ==
    UNION {{Join(f, <<>>) : f \in [1..n -> ScorePool]} : n \in 0..MaxSentences}
    \cup {a \o l \o b : a \in ScorePool \cup {<<>>}, l \in LongPool,
                         b \in ScorePool \cup {<<>>}}

\* The max_sentences arguments: None, and the integers from -1 to 3.
Limits == {<<>>, <<-1>>, <<0>>, <<1>>, <<2>>, <<3>>}

\* The texts given to generate_key_points: with no critical term, with
\* one in capitals, with two in the order opposite to that of critical_terms,
\* and with 'indemnify' and 'payment', which are no critical terms.
KeyPointTexts ==
    { <<>>,
      <<"P", "l", "a", "i", "n", " ", "w", "o", "r", "d", "s", " ", "a", "r", "e", " ", "u", "s", "e", "d", " ", "h", "e", "r", "e", ".">>,
      <<"T", "E", "R", "M", "I", "N", "A", "T", "I", "O", "N", " ", "o", "f", " ", "t", "h", "e", " ", "l", "e", "a", "s", "e">>,
      <<"T", "h", "e", " ", "W", "a", "r", "r", "a", "n", "t", "y", " ", "a", "n", "d", " ", "t", "h", "e", " ", "l", "i", "a", "b", "i", "l", "i", "t", "y">>,
      <<"T", "h", "e", "y", " ", "i", "n", "d", "e", "m", "n", "i", "f", "y", ";", " ", "p", "a", "y", "m", "e", "n", "t", " ", "i", "s", " ", "d", "u", "e">> }

\* The i-th item of the lists given to generate_key_points.
ClauseItem(i) == [number |-> DecimalString(i), text |-> <<"c">> \o DecimalString(i)]

DefinitionItem(i) ==
    [term |-> <<"T">> \o DecimalString(i), definition |-> <<"d">> \o DecimalString(i)]

\* Obligations of 149, 150, 151, ... characters.
ObligationItem(i) ==
    DecimalString(i) \o [j \in 1..(147 + i) |-> IF j < 150 THEN "a" ELSE "b"]

\* The lengths of the lists of clauses.
ClauseCounts == (0..MaxItems) \cup {12}

\* ----------------------------------------------------------------- state

\* The fields the constructors set: DocumentParser.SUPPORTED_FORMATS, the
\* pattern tables of TextAnalyzer and max_summary_sentences of
\* DocumentSummarizer.  LegalDocumentAnalyzer holds the three components and
\* nothing else.
Fields ==
    [SUPPORTED_FORMATS     |-> SUPPORTED_FORMATS,
     clause_patterns       |-> ClauseLabels,
     definition_patterns   |-> DefinitionVerbs,
     obligation_patterns   |-> obligation_patterns,
     max_summary_sentences |-> max_summary_sentences]

\* The threads that call the shared analyzer.
Threads == 1..NumThreads

\* The frame of a thread that is in no call: its arguments (op, file,
\* keywords) and its local variables (text, the exception in flight, results).
IdleCall ==
    [pc |-> "idle", op |-> "none",
     file |-> [exists |-> FALSE, ext |-> <<>>, fault |-> NoFault, body |-> <<>>],
     keywords |-> <<>>, text |-> <<>>,
     exc |-> [type |-> "none", msg |-> <<>>], result |-> [kind |-> "none"]]

VARIABLES
    pc,             \* where the call in progress stands
    op,             \* the operation called
    file,           \* its file_path argument
    keywords,       \* its keywords argument
    text,           \* the text parse returned, or the text argument
    exc,            \* the exception in flight
    result,         \* the value returned
    readAttempted,  \* whether the call has opened the file
    ran,            \* the sub-operations the entry point has called
    max_sentences,  \* the max_sentences argument: <<>> for None, <<k>> for k
    self,           \* the fields of the analyzer and of its three components
    calls,          \* the calls of the threads that share the analyzer
    clauses,        \* the list of clauses extracted, or the clauses argument
    definitions,    \* the list of definitions, or the definitions argument
    obligations     \* the list of obligations, or the obligations argument

vars == <<pc, op, file, keywords, text, exc, result, readAttempted, ran,
          max_sentences, self, calls, clauses, definitions, obligations>>

NoFile == [exists |-> FALSE, ext |-> <<>>, fault |-> NoFault, body |-> <<>>]

NoExc == [type |-> "none", msg |-> <<>>]

NoResult == [kind |-> "none"]

Init ==
    /\ pc = "idle"
    /\ op = "none"
    /\ file = NoFile
    /\ keywords = <<>>
    /\ text = <<>>
    /\ exc = NoExc
    /\ result = NoResult
    /\ readAttempted = FALSE
    /\ ran = <<>>
    /\ max_sentences = <<>>
    /\ self = Fields
    /\ calls = [t \in Threads |-> IdleCall]
    /\ clauses = <<>>
    /\ definitions = <<>>
    /\ obligations = <<>>

\* analyze_document(file_path) is called.
CallAnalyze(f) ==
    /\ pc = "idle"
    /\ pc' = "exists"
    /\ op' = "analyze_document"
    /\ file' = f
    /\ UNCHANGED <<keywords, text, exc, result, readAttempted, ran>>
    /\ UNCHANGED <<max_sentences, self, calls, clauses, definitions, obligations>>

\* search_document(file_path, keywords) is called.
CallSearch(f, kws) ==
    /\ pc = "idle"
    /\ Searchable(Join(f.body, <<"\n">>), kws)
    /\ pc' = "exists"
    /\ op' = "search_document"
    /\ file' = f
    /\ keywords' = kws
    /\ UNCHANGED <<text, exc, result, readAttempted, ran>>
    /\ UNCHANGED <<max_sentences, self, calls, clauses, definitions, obligations>>

\* parse: if not os.path.exists(file_path): raise FileNotFoundError.  The
\* test itself raises for a file_path that is no path.
ParseExists ==
    /\ pc = "exists"
    /\ IF ExistsFault(file).type # "none"
       THEN /\ pc' = "except"
            /\ exc' = [type |-> ExistsFault(file).type, msg |-> <<ExistsFault(file).text>>]
       ELSE IF os_path_exists(file)
       THEN pc' = "extension" /\ exc' = exc
       ELSE /\ pc' = "except"
            /\ exc' = [type |-> "FileNotFoundError", msg |-> <<"File not found">>]
    /\ UNCHANGED <<op, file, keywords, text, result, readAttempted, ran>>
    /\ UNCHANGED <<max_sentences, self, calls, clauses, definitions, obligations>>

\* parse: if ext not in self.SUPPORTED_FORMATS: raise ValueError
ParseExtension ==
    /\ pc = "extension"
    /\ IF IsSupported(LowerSeq(file.ext))
       THEN pc' = "decode" /\ exc' = exc
       ELSE /\ pc' = "except"
            /\ exc' = [type |-> "ValueError", msg |-> <<"Unsupported file format">>]
    /\ UNCHANGED <<op, file, keywords, text, result, readAttempted, ran>>
    /\ UNCHANGED <<max_sentences, self, calls, clauses, definitions, obligations>>

\* parse: the try block.  The branch of the extension opens the file and
\* decodes it; a failure is wrapped by the branch and again by parse.  With no
\* branch for the extension the block falls through and parse returns None,
\* which the callers read as an empty text.
ParseDecode ==
    /\ pc = "decode"
    /\ LET ext == LowerSeq(file.ext)
       IN  IF ~(\E i \in 1..Len(SUPPORTED_FORMATS) : SUPPORTED_FORMATS[i] = ext)
           THEN /\ pc' = "body"
                /\ text' = <<>>
                /\ UNCHANGED <<exc, readAttempted>>
           ELSE /\ readAttempted' = TRUE
                /\ IF DecodeFault(file).type = "none"
                   THEN /\ pc' = "body"
                        /\ text' = Decoded(file, ext)
                        /\ exc' = exc
                   ELSE /\ pc' = "except"
                        /\ exc' = ParseError(FormatError(ext, DecodeFault(file)))
                        /\ text' = text
    /\ UNCHANGED <<op, file, keywords, result, ran>>
    /\ UNCHANGED <<max_sentences, self, calls, clauses, definitions, obligations>>

\* analyze_document after parse: the length test, the extractors and the
\* summarizer, the results dictionary.
AnalyzeBody ==
    /\ pc = "body"
    /\ op = "analyze_document"
    /\ IF TooShort(text)
       THEN /\ pc' = "except"
            /\ exc' = [type |-> "ValueError",
                       msg  |-> <<"Document appears to be empty or too short">>]
            /\ UNCHANGED <<result, ran, clauses, definitions, obligations>>
       ELSE /\ pc' = "returned"
            /\ ran' = AnalyzeCalls
            /\ clauses' = extract_clauses(text)
            /\ definitions' = extract_definitions(text)
            /\ obligations' = extract_obligations(text)
            /\ result' = AnalysisResult(text)
            /\ exc' = exc
    /\ UNCHANGED <<op, file, keywords, text, readAttempted>>
    /\ UNCHANGED <<max_sentences, self, calls>>

\* search_document after parse: search_keywords and the results dictionary.
SearchBody ==
    /\ pc = "body"
    /\ op = "search_document"
    /\ pc' = "returned"
    /\ ran' = <<"search_keywords">>
    /\ result' = SearchResult(keywords, search_keywords(text, keywords))
    /\ UNCHANGED <<op, file, keywords, text, exc, readAttempted>>
    /\ UNCHANGED <<max_sentences, self, calls, clauses, definitions, obligations>>

\* analyze_document: except (ValueError, FileNotFoundError, RuntimeError): raise
\* and except Exception: raise RuntimeError("Unexpected error during analysis").
AnalyzeExcept ==
    /\ pc = "except"
    /\ op = "analyze_document"
    /\ pc' = "raised"
    /\ exc' = IF exc.type \in {"ValueError", "FileNotFoundError", "RuntimeError"}
              THEN exc
              ELSE [type |-> "RuntimeError",
                    msg  |-> <<"Unexpected error during analysis">> \o exc.msg]
    /\ UNCHANGED <<op, file, keywords, text, result, readAttempted, ran>>
    /\ UNCHANGED <<max_sentences, self, calls, clauses, definitions, obligations>>

\* An except clause of search_document that raises again what it caught.
SearchExceptReraise ==
    /\ pc = "except"
    /\ op = "search_document"
    /\ pc' = "raised"
    /\ UNCHANGED <<op, file, keywords, text, exc, result, readAttempted, ran>>
    /\ UNCHANGED <<max_sentences, self, calls, clauses, definitions, obligations>>

\* search_document: except Exception as e: raise RuntimeError("Error searching document").
SearchExcept ==
    /\ pc = "except"
    /\ op = "search_document"
    /\ pc' = "raised"
    /\ exc' = [type |-> "RuntimeError", msg |-> <<"Error searching document">> \o exc.msg]
    /\ UNCHANGED <<op, file, keywords, text, result, readAttempted, ran>>
    /\ UNCHANGED <<max_sentences, self, calls, clauses, definitions, obligations>>

\* TextAnalyzer.extract_definitions(text), called directly.
ExtractDefinitions(t) ==
    /\ pc = "idle"
    /\ pc' = "returned"
    /\ op' = "extract_definitions"
    /\ text' = t
    /\ result' = [kind |-> "definitions", value |-> extract_definitions(t)]
    /\ UNCHANGED <<file, keywords, exc, readAttempted, ran>>
    /\ UNCHANGED <<max_sentences, self, calls, clauses, definitions, obligations>>

\* TextAnalyzer.extract_obligations(text), called directly.
ExtractObligations(t) ==
    /\ pc = "idle"
    /\ pc' = "returned"
    /\ op' = "extract_obligations"
    /\ text' = t
    /\ result' = [kind |-> "obligations", value |-> extract_obligations(t)]
    /\ UNCHANGED <<file, keywords, exc, readAttempted, ran>>
    /\ UNCHANGED <<max_sentences, self, calls, clauses, definitions, obligations>>

\* TextAnalyzer.search_keywords(text, keywords), called directly.
SearchKeywords(t, kws) ==
    /\ pc = "idle"
    /\ Searchable(t, kws)
    /\ pc' = "returned"
    /\ op' = "search_keywords"
    /\ text' = t
    /\ keywords' = kws
    /\ result' = [kind |-> "matches", value |-> search_keywords(t, kws)]
    /\ UNCHANGED <<file, exc, readAttempted, ran>>
    /\ UNCHANGED <<max_sentences, self, calls, clauses, definitions, obligations>>

\* TextAnalyzer.extract_clauses(text), called directly.
ExtractClauses(t) ==
    /\ pc = "idle"
    /\ pc' = "returned"
    /\ op' = "extract_clauses"
    /\ text' = t
    /\ result' = [kind |-> "clauses", value |-> extract_clauses(t)]
    /\ UNCHANGED <<file, keywords, exc, readAttempted, ran>>
    /\ UNCHANGED <<max_sentences, self, calls, clauses, definitions, obligations>>

\* DocumentSummarizer.summarize(text, max_sentences), called directly.
Summarize(t, k) ==
    /\ pc = "idle"
    /\ pc' = "returned"
    /\ op' = "summarize"
    /\ text' = t
    /\ max_sentences' = k
    /\ result' = [kind |-> "summary", value |-> summarize(t, k)]
    /\ UNCHANGED <<file, keywords, exc, readAttempted, ran>>
    /\ UNCHANGED <<self, calls, clauses, definitions, obligations>>

\* DocumentSummarizer._score_sentences(sentences, full_text), called as
\* summarize calls it: with the sentences _split_sentences returns.
ScoreSentences(t) ==
    /\ pc = "idle"
    /\ pc' = "returned"
    /\ op' = "_score_sentences"
    /\ text' = t
    /\ result' = [kind |-> "scores", value |-> score_sentences(split_sentences(t), t)]
    /\ UNCHANGED <<file, keywords, exc, readAttempted, ran>>
    /\ UNCHANGED <<max_sentences, self, calls, clauses, definitions, obligations>>

\* DocumentSummarizer.generate_key_points(text, clauses, definitions,
\* obligations), called directly with lists of c, d and o items.
GenerateKeyPoints(t, c, d, o) ==
    /\ pc = "idle"
    /\ pc' = "returned"
    /\ op' = "generate_key_points"
    /\ text' = t
    /\ clauses' = [i \in 1..c |-> ClauseItem(i)]
    /\ definitions' = [i \in 1..d |-> DefinitionItem(i)]
    /\ obligations' = [i \in 1..o |-> ObligationItem(i)]
    /\ result' = [kind  |-> "key_points",
                  value |-> generate_key_points(t, clauses', definitions', obligations')]
    /\ UNCHANGED <<file, keywords, exc, readAttempted, ran>>
    /\ UNCHANGED <<max_sentences, self, calls>>

\* The caller has the value or the exception; the next call starts afresh.
Return ==
    /\ pc \in {"returned", "raised"}
    /\ pc' = "idle"
    /\ op' = "none"
    /\ file' = NoFile
    /\ keywords' = <<>>
    /\ text' = <<>>
    /\ exc' = NoExc
    /\ result' = NoResult
    /\ readAttempted' = FALSE
    /\ ran' = <<>>
    /\ max_sentences' = <<>>
    /\ clauses' = <<>>
    /\ definitions' = <<>>
    /\ obligations' = <<>>
    /\ UNCHANGED <<self, calls>>

Next ==
    \/ \E f \in Files : CallAnalyze(f)
    \/ \E f \in Files, kws \in KeywordLists : CallSearch(f, kws)
    \/ ParseExists
    \/ ParseExtension
    \/ ParseDecode
    \/ AnalyzeBody
    \/ SearchBody
    \/ AnalyzeExcept
    \/ SearchExcept
    \/ \E t \in Texts : ExtractDefinitions(t)
    \/ \E t \in Texts : ExtractObligations(t)
    \/ \E t \in Texts, kws \in KeywordLists : SearchKeywords(t, kws)
    \/ \E t \in Texts \cup ClauseTexts : ExtractClauses(t)
    \/ \E t \in SummaryTexts, k \in Limits : Summarize(t, k)
    \/ \E t \in Texts \cup ScoreTexts : ScoreSentences(t)
    \/ \E t \in KeyPointTexts, c \in ClauseCounts, d \in 0..MaxItems, o \in 0..MaxItems :
           GenerateKeyPoints(t, c, d, o)
    \/ Return

Spec == Init /\ [][Next]_vars

\* ------------------------------------------------------ concurrent calls

\* The files of the calls that run side by side: a missing path, a file of an
\* unsupported format, a PDF that fails to decode, a short and a long text
\* file, a DOCX of three paragraphs.
SharedFiles ==
    { [exists |-> FALSE, ext |-> <<".", "p", "d", "f">>, fault |-> NoFault, body |-> <<>>],
      [exists |-> TRUE, ext |-> <<".", "x", "y", "z">>, fault |-> NoFault, body |-> <<<<"T", "h", "e", " ", "P", "a", "r", "t", "y", " ", "s", "h", "a", "l", "l", " ", "p", "a", "y", " ", "i", "t", ".", " ">>>>],
      [exists |-> TRUE, ext |-> <<".", "p", "d", "f">>,
       fault |-> [type |-> "PdfReadError", text |-> "EOF marker not found"], body |-> <<>>],
      [exists |-> TRUE, ext |-> <<".", "t", "x", "t">>, fault |-> NoFault, body |-> <<<<"T", "h", "e", " ", "P", "a", "r", "t", "y", " ", "s", "h", "a", "l", "l", " ", "p", "a", "y", " ", "i", "t", ".", " ">>>>],
      [exists |-> TRUE, ext |-> <<".", "t", "x", "t">>, fault |-> NoFault,
       body |-> <<<<"T", "h", "e", " ", "P", "a", "r", "t", "y", " ", "s", "h", "a", "l", "l", " ", "p", "a", "y", " ", "i", "t", ".", " ">>, <<"T", "h", "e", " ", "P", "a", "r", "t", "y", " ", "s", "h", "a", "l", "l", " ", "p", "a", "y", " ", "i", "t", ".", " ">>, <<"T", "h", "e", " ", "P", "a", "r", "t", "y", " ", "s", "h", "a", "l", "l", " ", "p", "a", "y", " ", "i", "t", ".", " ">>>>],
      [exists |-> TRUE, ext |-> <<".", "d", "o", "c", "x">>, fault |-> NoFault,
       body |-> <<<<"a", "b", ",", " ", "A", "B", " ">>, <<"a", "b", ",", " ", "A", "B", " ">>, <<"a", "b", ",", " ", "A", "B", " ">>>>] }

\* The calls a thread makes: analyze_document on each file, search_document
\* for "ab" on the files that exist.
SharedCalls ==
    {[op |-> "analyze_document", file |-> f, keywords |-> <<>>] : f \in SharedFiles}
    \cup {[op |-> "search_document", file |-> f, keywords |-> << <<"a", "b">> >>] :
             f \in {g \in SharedFiles : g.exists}}

\* A variable text kept in one place for all the threads.
ParsedTextShared(c, t) == c[1].text

\* text, the local variable of the call of thread t.
ParsedText(c, t) == c[t].text

\* One step of a call on its frame c: the checks and the decoding of parse,
\* the body of the entry point, its except clauses.
CallStep(c) ==
    CASE c.pc = "exists" ->
             IF ExistsFault(c.file).type # "none"
             THEN [c EXCEPT !.pc = "except",
                            !.exc = [type |-> ExistsFault(c.file).type,
                                     msg  |-> <<ExistsFault(c.file).text>>]]
             ELSE IF os_path_exists(c.file) THEN [c EXCEPT !.pc = "extension"]
             ELSE [c EXCEPT !.pc = "except",
                            !.exc = [type |-> "FileNotFoundError", msg |-> <<"File not found">>]]
      [] c.pc = "extension" ->
             IF IsSupported(LowerSeq(c.file.ext)) THEN [c EXCEPT !.pc = "decode"]
             ELSE [c EXCEPT !.pc = "except",
                            !.exc = [type |-> "ValueError", msg |-> <<"Unsupported file format">>]]
      [] c.pc = "decode" ->
             IF DecodeFault(c.file).type = "none"
             THEN [c EXCEPT !.pc = "body", !.text = Decoded(c.file, LowerSeq(c.file.ext))]
             ELSE [c EXCEPT !.pc = "except",
                            !.exc = ParseError(FormatError(LowerSeq(c.file.ext),
                                                           DecodeFault(c.file)))]
      [] c.pc = "body" /\ c.op = "analyze_document" ->
             IF TooShort(c.text)
             THEN [c EXCEPT !.pc = "except",
                            !.exc = [type |-> "ValueError",
                                     msg  |-> <<"Document appears to be empty or too short">>]]
             ELSE [c EXCEPT !.pc = "returned", !.result = AnalysisResult(c.text)]
      [] c.pc = "body" /\ c.op = "search_document" ->
             [c EXCEPT !.pc = "returned",
                       !.result = SearchResult(c.keywords,
                                               search_keywords(c.text, c.keywords))]
      [] c.pc = "except" /\ c.op = "analyze_document" ->
             [c EXCEPT !.pc = "raised",
                       !.exc = IF c.exc.type \in {"ValueError", "FileNotFoundError", "RuntimeError"}
                               THEN c.exc
                               ELSE [type |-> "RuntimeError",
                                     msg  |-> <<"Unexpected error during analysis">> \o c.exc.msg]]
      [] c.pc = "except" /\ c.op = "search_document" ->
             [c EXCEPT !.pc = "raised",
                       !.exc = [type |-> "RuntimeError",
                                msg  |-> <<"Error searching document">> \o c.exc.msg]]

\* The frame of a call that begins.
StartCall(a) ==
    [IdleCall EXCEPT !.pc = "exists", !.op = a.op, !.file = a.file, !.keywords = a.keywords]

\* The call run from frame c to its end with no other call beside it.
RECURSIVE RunAlone(_)
RunAlone(c) == IF c.pc \in {"returned", "raised"} THEN c ELSE RunAlone(CallStep(c))

\* Thread t calls analyze_document or search_document on the shared analyzer.
ThreadCall(t, a) ==
    /\ calls[t].pc = "idle"
    /\ calls' = [calls EXCEPT ![t] = StartCall(a)]
    /\ UNCHANGED <<pc, op, file, keywords, text, exc, result, readAttempted, ran,
                   max_sentences, self, clauses, definitions, obligations>>

\* The call of thread t takes its next step, on its own frame.
ThreadStep(t) ==
    /\ calls[t].pc \in {"exists", "extension", "decode", "body", "except"}
    /\ calls' = [calls EXCEPT
                    ![t] = CallStep([calls[t] EXCEPT !.text = ParsedText(calls, t)])]
    /\ UNCHANGED <<pc, op, file, keywords, text, exc, result, readAttempted, ran,
                   max_sentences, self, clauses, definitions, obligations>>

\* The caller of thread t has the value or the exception.
ThreadReturn(t) ==
    /\ calls[t].pc \in {"returned", "raised"}
    /\ calls' = [calls EXCEPT ![t] = IdleCall]
    /\ UNCHANGED <<pc, op, file, keywords, text, exc, result, readAttempted, ran,
                   max_sentences, self, clauses, definitions, obligations>>

NextConcurrent ==
    \/ \E t \in Threads, a \in SharedCalls : ThreadCall(t, a)
    \/ \E t \in Threads : ThreadStep(t)
    \/ \E t \in Threads : ThreadReturn(t)

\* Calls on one shared analyzer, their steps interleaved in any order.
SpecConcurrent == Init /\ [][NextConcurrent]_vars

\* ---------------------------------------------------------------- claims

\* The extension, lowered, is none of .pdf, .docx, .txt.
UnsupportedExtension(e) ==
    LowerSeq(e) \notin
        { <<".", "p", "d", "f">>, <<".", "d", "o", "c", "x">>, <<".", "t", "x", "t">> }

\* The file exists, has a supported extension and decodes.
Decodable(f) == f.exists /\ ~UnsupportedExtension(f.ext) /\ f.fault.type = "none"

\* The content of the file: its blocks, one after the other.
Content(f) == Join(f.body, <<>>)

Blank(s) == \A i \in 1..Len(s) : s[i] \in {" ", "\t", "\n", "\r"}

EntryPoints == {"analyze_document", "search_document"}

\* C1 as stated: for every existing file with an extension outside .pdf,
\* .docx, .txt, analyze_document and search_document both fail with
\* ValueError 'Unsupported file format', before any attempt to read the file.
C1_Original ==
    (op \in EntryPoints /\ file.exists /\ UnsupportedExtension(file.ext)) =>
        /\ ~readAttempted
        /\ pc \notin {"decode", "body", "returned"}
        /\ pc = "raised" =>
               exc = [type |-> "ValueError", msg |-> <<"Unsupported file format">>]

\* C1, amended: for every existing file with an extension outside .pdf, .docx,
\* .txt, both entry points fail before any attempt to read the file;
\* analyze_document fails with ValueError 'Unsupported file format', and
\* search_document with a RuntimeError 'Error searching document' whose
\* message carries 'Unsupported file format'.
C1_UnsupportedFormat ==
    (op \in EntryPoints /\ file.exists /\ UnsupportedExtension(file.ext)) =>
        /\ ~readAttempted
        /\ pc \notin {"decode", "body", "returned"}
        /\ pc = "except" =>
               exc = [type |-> "ValueError", msg |-> <<"Unsupported file format">>]
        /\ (pc = "raised" /\ op = "analyze_document") =>
               exc = [type |-> "ValueError", msg |-> <<"Unsupported file format">>]
        /\ (pc = "raised" /\ op = "search_document") =>
               exc = [type |-> "RuntimeError",
                      msg  |-> <<"Error searching document", "Unsupported file format">>]

\* search_document has failed on an existing, undecodable .xyz file it never read.
C1_Witness ==
    /\ pc = "raised"
    /\ op = "search_document"
    /\ file.exists
    /\ file.ext = <<".", "x", "y", "z">>
    /\ file.fault.type # "none"
    /\ exc.type = "RuntimeError"
    /\ ~readAttempted

\* C2: for every path that does not exist, analyze_document fails with
\* FileNotFoundError whatever the extension: the existence check comes before
\* the extension check and any read, and the error reaches the caller as it is.
C2_NotFound ==
    (op = "analyze_document" /\ file # NotAPath /\ ~file.exists /\ pc # "exists") =>
        /\ pc \in {"except", "raised"}
        /\ exc = [type |-> "FileNotFoundError", msg |-> <<"File not found">>]
        /\ ~readAttempted

\* analyze_document has raised FileNotFoundError for a missing .xyz path.
C2_Witness ==
    /\ pc = "raised"
    /\ op = "analyze_document"
    /\ ~file.exists
    /\ UnsupportedExtension(file.ext)
    /\ exc.type = "FileNotFoundError"

\* C3: for every existing file with a supported extension whose decoded text
\* has at least 50 characters after trimming, analyze_document returns a
\* record with success, word_count > 0 and text_length equal to the length of
\* the decoded text, untrimmed.
C3_AnalyzeSuccess ==
    (/\ op = "analyze_document"
     /\ pc \in {"except", "returned", "raised"}
     /\ Decodable(file)
     /\ Len(Strip(text)) >= 50) =>
        /\ pc = "returned"
        /\ result.kind = "analysis"
        /\ result.success
        /\ result.word_count > 0
        /\ result.text_length = Len(text)

\* analyze_document has returned for a text that ends in whitespace.
C3_Witness ==
    /\ pc = "returned"
    /\ op = "analyze_document"
    /\ Len(Strip(text)) >= 50
    /\ Len(Strip(text)) < Len(text)
    /\ result.success
    /\ result.text_length = Len(text)

\* The second half of C4: analyze_document on a supported file whose decoded
\* text has fewer than 50 characters after trimming fails with ValueError
\* 'empty or too short', returns no record and calls no extractor or summarizer.
RejectsShortText ==
    (/\ op = "analyze_document"
     /\ pc \in {"except", "returned", "raised"}
     /\ Decodable(file)
     /\ Len(Strip(text)) < 50) =>
        /\ pc \in {"except", "raised"}
        /\ exc = [type |-> "ValueError",
                  msg  |-> <<"Document appears to be empty or too short">>]
        /\ result = NoResult
        /\ ran = <<>>

\* A text file that is empty or all whitespace has just been decoded.
BlankTextFileDecoded ==
    /\ pc \in {"body", "returned"}
    /\ op \in EntryPoints
    /\ LowerSeq(file.ext) = <<".", "t", "x", "t">>
    /\ Blank(Content(file))

C5_DecodeFailure ==
    (/\ op \in EntryPoints
     /\ file.exists
     /\ ~UnsupportedExtension(file.ext)
     /\ file.fault.type # "none"
     /\ pc \notin {"exists", "extension", "decode"}) =>
        /\ pc \in {"except", "raised"}
        /\ readAttempted
        /\ exc.type = "RuntimeError"
        /\ exc.type # file.fault.type
        /\ \E i \in 1..Len(exc.msg) : exc.msg[i] = file.fault.text
        /\ \E i \in 1..Len(exc.msg) : exc.msg[i] = "Error parsing document"

\* parse has raised RuntimeError for a PDF whose reader failed.
C5_Witness ==
    /\ pc = "except"
    /\ LowerSeq(file.ext) = <<".", "p", "d", "f">>
    /\ file.fault.type = "PdfReadError"
    /\ exc.type = "RuntimeError"
    /\ exc.msg = <<"Error parsing document", "Error parsing PDF", "EOF marker not found">>

\* C6: extract_definitions returns at most 20 entries, extract_obligations at
\* most 15 and search_keywords at most 10 snippets for each keyword, whatever
\* the text; the lists analyze_document and search_document return are
\* already cut.
C6_Caps ==
    /\ result.kind = "definitions" => Len(result.value) <= 20
    /\ result.kind = "obligations" => Len(result.value) <= 15
    /\ result.kind = "matches" =>
           \A k \in DOMAIN result.value : Len(result.value[k]) <= 10
    /\ result.kind = "analysis" =>
           Len(result.definitions) <= 20 /\ Len(result.obligations) <= 15
    /\ result.kind = "search" =>
           \A k \in DOMAIN result.results : Len(result.results[k]) <= 10

\* extract_definitions has returned 20 entries for a text that quotes more
\* than 20 terms.
C6_Witness ==
    /\ result.kind = "definitions"
    /\ Len(result.value) = 20
    /\ Cardinality({i \in 1..Len(text) : text[i] = "\""}) > 40

\* kw occurs in t at 0-based offset p, letter case ignored.
OccursAt(t, kw, p) ==
    /\ p + Len(kw) <= Len(t)
    /\ \A j \in 1..Len(kw) :
           \/ t[p + j] = kw[j]
           \/ (t[p + j] \in DOMAIN LowerMap /\ LowerMap[t[p + j]] = kw[j])
           \/ (kw[j] \in DOMAIN LowerMap /\ LowerMap[kw[j]] = t[p + j])

Occurs(t, kw) == \E p \in 0..Len(t) : OccursAt(t, kw, p)

\* The snippets search_keywords or search_document has returned.
Found == IF result.kind = "matches" THEN result.value ELSE result.results

\* C7: in the mapping search_keywords returns, a supplied keyword is a key if
\* and only if it occurs in the text; no key has an empty list, and every key
\* is a keyword as supplied.
C7_KeysIffOccur ==
    result.kind \in {"matches", "search"} =>
        /\ DOMAIN Found \subseteq {keywords[i] : i \in 1..Len(keywords)}
        /\ \A i \in 1..Len(keywords) :
               keywords[i] \in DOMAIN Found <=> Occurs(text, keywords[i])
        /\ \A k \in DOMAIN Found : Found[k] # <<>>

\* search_keywords has returned a mapping with the key "Ab" and without "zz".
C7_Witness ==
    /\ result.kind = "matches"
    /\ keywords = << <<"z", "z">>, <<"A", "b">> >>
    /\ DOMAIN result.value = { <<"A", "b">> }

\* C8: the record of search_document echoes the keyword list and its
\* total_matches is the sum of the lengths of the snippet lists; for an empty
\* keyword list the mapping is empty and the total 0, and the search raises
\* nothing once the file has decoded.
C8_Totals ==
    /\ (op = "search_document" /\ pc = "returned") =>
           /\ result.kind = "search"
           /\ result.keywords = keywords
           /\ result.total_matches =
                  Cardinality({<<k, i>> \in (DOMAIN result.results) \X (1..10) :
                                   i <= Len(result.results[k])})
           /\ keywords = <<>> =>
                  DOMAIN result.results = {} /\ result.total_matches = 0
    /\ (op = "search_document" /\ Decodable(file) /\ pc \notin {"exists", "extension", "decode", "body"}) =>
           pc = "returned"

\* search_document has returned two lists of 10 snippets each.
C8_Witness ==
    /\ op = "search_document"
    /\ pc = "returned"
    /\ Cardinality(DOMAIN result.results) = 2
    /\ result.total_matches = 20

\* search_document has returned for an empty keyword list and a text that is not empty.
C8_WitnessEmpty ==
    /\ op = "search_document"
    /\ pc = "returned"
    /\ keywords = <<>>
    /\ Len(text) > 0
    /\ result.total_matches = 0

\* The number of occurrences of kw in t from offset from on, letter case
\* ignored, taken left to right without overlap.
RECURSIVE OccurrenceCount(_, _, _)
OccurrenceCount(t, kw, from) ==
    IF \A p \in from..Len(t) : ~OccursAt(t, kw, p) THEN 0
    ELSE LET p == CHOOSE q \in from..Len(t) :
                      OccursAt(t, kw, q) /\ \A r \in from..(q - 1) : ~OccursAt(t, kw, r)
         IN  1 + OccurrenceCount(t, kw, IF kw = <<>> THEN p + 1 ELSE p + Len(kw))

SnippetCount(k) == IF k \in DOMAIN Found THEN Len(Found[k]) ELSE 0

\* C9: search_keywords ignores letter case: two keywords that differ only in
\* case get the same number of snippets, the smaller of 10 and the number of
\* occurrences of the keyword in the text, case ignored.
C9_CaseInsensitive ==
    result.kind \in {"matches", "search"} =>
        \A i, j \in 1..Len(keywords) :
            LowerSeq(keywords[i]) = LowerSeq(keywords[j]) =>
                /\ SnippetCount(keywords[i]) = SnippetCount(keywords[j])
                /\ LET n == OccurrenceCount(text, keywords[i], 0)
                   IN  SnippetCount(keywords[i]) = IF n < 10 THEN n ELSE 10

\* search_keywords has returned as many snippets for "AB" as for "ab", fewer than 10.
C9_Witness ==
    /\ result.kind = "matches"
    /\ keywords = << <<"A", "B">>, <<"a", "b">> >>
    /\ SnippetCount(<<"A", "B">>) = SnippetCount(<<"a", "b">>)
    /\ SnippetCount(<<"a", "b">>) \in 1..9

\* The snippet holds an occurrence of kw between two markers.
HasMarked(snippet, kw) ==
    \E p \in 0..Len(snippet) :
        /\ p + 4 + Len(kw) <= Len(snippet)
        /\ snippet[p + 1] = "*" /\ snippet[p + 2] = "*"
        /\ OccursAt(snippet, kw, p + 2)
        /\ snippet[p + Len(kw) + 3] = "*" /\ snippet[p + Len(kw) + 4] = "*"

\* C10: for every keyword that occurs in the text, search_keywords returns one
\* snippet for each occurrence, up to the cap, and every snippet holds an
\* occurrence of the keyword between two '**' markers.
C10_SnippetsMarked ==
    result.kind \in {"matches", "search"} =>
        \A k \in DOMAIN Found :
            /\ LET n == OccurrenceCount(text, k, 0)
               IN  Len(Found[k]) = IF n < 10 THEN n ELSE 10
            /\ \A i \in 1..Len(Found[k]) : HasMarked(Found[k][i], k)

\* s without the blanks at its two ends.
Trim(s) ==
    LET solid == {i \in 1..Len(s) : ~Blank(<<s[i]>>)}
    IN  IF solid = {} THEN <<>>
        ELSE SubSeq(s, CHOOSE i \in solid : \A j \in solid : i <= j,
                       CHOOSE i \in solid : \A j \in solid : i >= j)

Terminator(c) == c = "." \/ c = "!" \/ c = "?"

\* The pieces of t from its i-th character on, a piece ending before each
\* character of the set cuts.
RECURSIVE Pieces(_, _, _)
Pieces(t, i, cuts) ==
    IF \A j \in i..Len(t) : t[j] \notin cuts THEN <<SubSeq(t, i, Len(t))>>
    ELSE LET c == CHOOSE j \in i..Len(t) :
                      t[j] \in cuts /\ \A k \in i..(j - 1) : t[k] \notin cuts
         IN  <<SubSeq(t, i, c - 1)>> \o Pieces(t, c + 1, cuts)

\* The trimmed segments of t between runs of '.', '!' and '?'.
Segments(t) ==
    LET p == Pieces(t, 1, {".", "!", "?"}) IN [i \in 1..Len(p) |-> Trim(p[i])]

LongerThan20(x) == Len(x) > 20

\* The sentences of t that survive the splitting of the summarizer.
Survivors(t) == SelectSeq(Segments(t), LongerThan20)

\* The members of list whose index is in I, in the order of the list, from
\* index i on.
RECURSIVE Pick(_, _, _)
Pick(list, I, i) ==
    IF i > Len(list) THEN <<>>
    ELSE (IF i \in I THEN <<list[i]>> ELSE <<>>) \o Pick(list, I, i + 1)

\* The members of list, one space between two of them.
RECURSIVE Spaced(_)
Spaced(list) ==
    IF list = <<>> THEN <<>>
    ELSE IF Len(list) = 1 THEN Head(list)
    ELSE Head(list) \o <<" ">> \o Spaced(Tail(list))

\* Some stretch of t without '.', '!' or '?' runs over more than 20
\* characters from a character that is not blank to another.
SomeSentenceSurvives(t) ==
    \E i \in 1..Len(t) : \E j \in (i + 20)..Len(t) :
        /\ ~Blank(<<t[i]>>)
        /\ ~Blank(<<t[j]>>)
        /\ \A k \in i..j : ~Terminator(t[k])

NoContentMarker ==
    <<"N", "o", " ", "c", "o", "n", "t", "e", "n", "t", " ", "t", "o", " ", "s", "u", "m", "m", "a", "r", "i", "z", "e", ".">>

\* The limit summarize works with: 10 when max_sentences is None.
Limit == IF max_sentences = <<>> THEN 10 ELSE max_sentences[1]

\* C11: summarize returns exactly 'No content to summarize.' when no sentence
\* survives the splitting, that is for the empty text and for every text
\* whose segments between runs of '.', '!' and '?' all have 20 characters or
\* fewer once trimmed; in every other case it returns surviving sentences of
\* the text, joined.
C11_NoContent ==
    result.kind = "summary" =>
        /\ (result.value = NoContentMarker) <=> ~SomeSentenceSurvives(text)
        /\ (\A i \in 1..Len(Segments(text)) : Len(Segments(text)[i]) <= 20) =>
               result.value = NoContentMarker
        /\ SomeSentenceSurvives(text) =>
               \E I \in SUBSET (1..Len(Survivors(text))) :
                   result.value = Spaced(Pick(Survivors(text), I, 1))

\* summarize has returned the marker for a text of two sentences of 20
\* characters each.
C11_Witness ==
    /\ result.kind = "summary"
    /\ result.value = NoContentMarker
    /\ Cardinality({i \in 1..Len(Segments(text)) : Len(Segments(text)[i]) = 20}) >= 2

\* C12: for every text and every sentence limit k (a count: 0 or more),
\* summarize(text, max_sentences=k) returns at most k of the surviving
\* sentences, in the order they have in the text.
C12_AtMostK ==
    (result.kind = "summary" /\ max_sentences # <<>> /\ Limit >= 0) =>
        \/ Survivors(text) = <<>> /\ result.value = NoContentMarker
        \/ \E I \in SUBSET (1..Len(Survivors(text))) :
               /\ Cardinality(I) <= Limit
               /\ result.value = Spaced(Pick(Survivors(text), I, 1))

\* summarize has returned a summary for the limit 2 and a text of four
\* surviving sentences.
C12_Witness ==
    /\ result.kind = "summary"
    /\ max_sentences = <<2>>
    /\ Len(Survivors(text)) = 4
    /\ result.value # NoContentMarker
    /\ result.value # <<>>

\* The call of thread t has ended, with a value or an exception.
Ended(t) == calls[t].pc \in {"returned", "raised"}

LinesOf(t) == Pieces(t, 1, {"\n"})

\* s without the blanks at its start.
TrimLeft(s) ==
    LET solid == {i \in 1..Len(s) : ~Blank(<<s[i]>>)}
    IN  IF solid = {} THEN <<>>
        ELSE SubSeq(s, CHOOSE i \in solid : \A j \in solid : i <= j, Len(s))

DigitChar(c) == c \in {"0", "1", "2", "3", "4", "5", "6", "7", "8", "9"}

LabelWords ==
    { <<"c", "l", "a", "u", "s", "e">>,
      <<"a", "r", "t", "i", "c", "l", "e">>,
      <<"s", "e", "c", "t", "i", "o", "n">>,
      <<"p", "a", "r", "a", "g", "r", "a", "p", "h">> }

\* Family (a): after optional blanks the line starts with a label, in any
\* letter case, followed by blanks and a number; nothing need follow the number.
LabelledMarker(line) ==
    LET l == TrimLeft(line)
    IN  \E w \in LabelWords :
            /\ OccursAt(l, w, 0)
            /\ \E g \in 1..(Len(l) - Len(w) - 1) :
                   /\ \A j \in 1..g : Blank(<<l[Len(w) + j]>>)
                   /\ DigitChar(l[Len(w) + g + 1])

\* Family (b): the line starts with a number, a full stop and blanks, followed
\* by an upper-case letter.
ListMarker(line) ==
    LET l == TrimLeft(line)
    IN  \E n \in 1..(Len(l) - 3) :
            /\ \A j \in 1..n : DigitChar(l[j])
            /\ l[n + 1] = "."
            /\ \E g \in 1..(Len(l) - n - 2) :
                   /\ \A j \in 1..g : Blank(<<l[n + 1 + j]>>)
                   /\ l[n + 2 + g] \in DOMAIN LowerMap

\* x begins with y.
StartsWith(x, y) == Len(y) <= Len(x) /\ SubSeq(x, 1, Len(y)) = y

\* The indices of the lines that are a marker of family (a) or (b), in order.
MarkerLines(lines) ==
    Ascending({i \in 1..Len(lines) : LabelledMarker(lines[i]) \/ ListMarker(lines[i])})

\* C14: extract_clauses reports a line as a clause if and only if the line is
\* a marker of family (a) or (b): there are as many clauses as marker lines,
\* and the text of the k-th clause begins with the k-th marker line.  A label
\* and a number with nothing after them count; 'N. ' followed by a lower-case
\* letter does not.
C14_ClauseMarkers ==
    result.kind = "clauses" =>
        LET lines == LinesOf(text)
            m     == MarkerLines(lines)
        IN  /\ Len(result.value) = Len(m)
            /\ \A k \in 1..Len(m) :
                   StartsWith(result.value[k].text, Prefix(Trim(lines[m[k]]), 200))

\* The lines of the text that a pattern of extract_clauses matches, in order.
MatchedLines(t) ==
    LET lines == LinesOf(t)
    IN  Ascending({i \in 1..Len(lines) :
                       ClauseLabelMatch(lines[i]) # <<>> \/ ClauseListMatch(lines[i]) # <<>>})

LineFeeds(t) == Cardinality({i \in 1..Len(t) : t[i] = "\n"})

\* C15: extract_clauses gives one clause for each line that matches a pattern
\* family, and no more than one, in the order of the lines; so the clauses are
\* never more than the lines.
C15_OnePerLine ==
    result.kind = "clauses" =>
        LET lines == LinesOf(text)
            h     == MatchedLines(text)
        IN  /\ Len(lines) = LineFeeds(text) + 1
            /\ Len(result.value) <= Len(lines)
            /\ Len(result.value) = Len(h)
            /\ \A k \in 1..Len(h) :
                   /\ StartsWith(result.value[k].text, Prefix(Trim(lines[h[k]]), 200))
                   /\ \E p \in 0..Len(lines[h[k]]) :
                          OccursAt(lines[h[k]], result.value[k].number, p)

\* extract_clauses has returned, for a text whose first line is a labelled
\* marker and whose last line is a list marker, with lines between them that
\* are no marker, the two clauses in the order of their lines.
C15_Witness ==
    /\ result.kind = "clauses"
    /\ Len(result.value) = 2
    /\ LineFeeds(text) + 1 > 3
    /\ result.value[1].number = <<"2", ".", "1">>
    /\ result.value[2].number = <<"1">>

\* x cut to 200 characters, with '...' after them when it was longer.
Capped(x) == IF Len(x) <= 200 THEN x ELSE SubSeq(x, 1, 200) \o <<".", ".", ".">>

\* C16: the text of the clause found at line i is the lines i to i + 4 (fewer
\* at the end of the text) joined by single spaces and trimmed; when that
\* context has more than 200 characters the text is its first 200 characters
\* followed by '...', otherwise the context as it is: never more than 203
\* characters.
C16_ClauseText ==
    result.kind = "clauses" =>
        LET lines == LinesOf(text)
            h     == MatchedLines(text)
        IN  \A k \in 1..Len(result.value) :
                LET i       == h[k]
                    last    == IF i + 4 <= Len(lines) THEN i + 4 ELSE Len(lines)
                    context == Trim(Spaced(SubSeq(lines, i, last)))
                IN  /\ result.value[k].text = Capped(context)
                    /\ Len(result.value[k].text) <= 203
                    /\ Len(context) <= 200 => result.value[k].text = context

\* extract_clauses has returned a clause text cut to 200 characters and '...',
\* and, nearer the end of the text, a clause text of fewer than five lines.
C16_Witness ==
    /\ result.kind = "clauses"
    /\ Len(result.value) >= 2
    /\ Len(result.value[1].text) = 203
    /\ SubSeq(result.value[1].text, 201, 203) = <<".", ".", ".">>
    /\ Len(result.value[Len(result.value)].text) < 200

DefiningVerbs ==
    { <<"m", "e", "a", "n", "s">>,
      <<"s", "h", "a", "l", "l", " ", "m", "e", "a", "n">>,
      <<"r", "e", "f", "e", "r", "s", " ", "t", "o">>,
      <<"i", "s", " ", "d", "e", "f", "i", "n", "e", "d", " ", "a", "s">> }

\* Where a definition that begins at the 0-based offset p of t ends (0-based,
\* exclusive): a double quote at p, a term without a quote and not empty, the
\* closing quote, one blank or more, one of the verbs in any letter case.
\* The set has one member, or none when no definition begins at p.
DefinitionStops(t, p) ==
    IF p >= Len(t) \/ t[p + 1] # "\"" THEN {}
    ELSE LET closers   == {x \in (p + 3)..Len(t) :
                              t[x] = "\"" /\ \A y \in (p + 2)..(x - 1) : t[y] # "\""}
             Gaps(c)   == {g \in 1..(Len(t) - c) : \A j \in 1..g : Blank(<<t[c + j]>>)}
             Verbs(q)  == {v \in DefiningVerbs : OccursAt(t, v, q)}
         IN  UNION {UNION {{c + g + Len(v) : v \in Verbs(c + g)} : g \in Gaps(c)} :
                        c \in closers}

\* The quoted term of the definition that begins at p.
TermAt(t, p) ==
    LET c == CHOOSE x \in (p + 2)..Len(t) :
                 t[x] = "\"" /\ \A y \in (p + 2)..(x - 1) : t[y] # "\""
    IN  SubSeq(t, p + 2, c - 1)

\* The definitions of t from the offset from on, left to right, each search
\* beginning where the definition before it ended.
RECURSIVE QuotedDefinitions(_, _)
QuotedDefinitions(t, from) ==
    LET starts == {p \in from..(Len(t) - 1) : DefinitionStops(t, p) # {}}
    IN  IF starts = {} THEN <<>>
        ELSE LET p    == CHOOSE x \in starts : \A y \in starts : x <= y
                 stop == CHOOSE e \in DefinitionStops(t, p) : TRUE
                 lo   == IF p > 50 THEN p - 50 ELSE 0
                 hi   == IF stop + 150 < Len(t) THEN stop + 150 ELSE Len(t)
             IN  <<[term |-> TermAt(t, p), definition |-> Trim(SubSeq(t, lo + 1, hi))]>>
                   \o QuotedDefinitions(t, stop)

\* The first k members of list.
FirstOf(list, k) == [i \in 1..(IF Len(list) < k THEN Len(list) ELSE k) |-> list[i]]

\* C17: extract_definitions returns, in order of appearance, the first 20
\* matches of a double-quoted term followed by means / shall mean / refers to
\* / is defined as, in any letter case, over the whole text; the term is the
\* quoted phrase and the definition the text from 50 characters before the
\* match to 150 after it, within the text, trimmed.  Later matches are dropped.
C17_Definitions ==
    /\ result.kind = "definitions" =>
           result.value = FirstOf(QuotedDefinitions(text, 0), 20)
    /\ result.kind = "analysis" =>
           result.definitions = FirstOf(QuotedDefinitions(text, 0), 20)

\* extract_definitions has returned 20 entries of a text with 21 definitions,
\* the eleventh a window of 50 characters before and 150 after its match.
C17_Witness ==
    /\ result.kind = "definitions"
    /\ Len(result.value) = 20
    /\ Len(QuotedDefinitions(text, 0)) = 21
    /\ result.value[1].term = <<"T">>
    /\ Len(result.value[11].definition) > 200

HasMarker(x) ==
    \E i \in 1..Len(obligation_patterns) : \E w \in obligation_patterns[i] : HasWord(x, w)

Qualifies(x) == HasMarker(x) /\ Len(x) > 20

\* The obligations of t: the first 15 of its trimmed sentences that hold a
\* marker and are longer than 20 characters, each cut to 200 characters.
Obligations(t) ==
    LET q == FirstOf(SelectSeq(Segments(t), Qualifies), 15)
    IN  [i \in 1..Len(q) |-> Capped(q[i])]

\* C18: extract_obligations returns the first 15, in their order, of the
\* sentences (segments between runs of '.', '!' and '?', trimmed) that hold an
\* obligation marker and are longer than 20 characters; an entry is the
\* sentence when it has 200 characters or fewer, otherwise its first 200
\* characters and '...'.  A sentence of 20 characters or fewer is not returned.
C18_Obligations ==
    /\ result.kind = "obligations" =>
           /\ result.value = Obligations(text)
           /\ \A i \in 1..Len(result.value) : Len(result.value[i]) > 20
    /\ result.kind = "analysis" => result.obligations = Obligations(text)

\* extract_obligations has returned one sentence, cut to 200 characters and '...'.
C18_Witness ==
    /\ result.kind = "obligations"
    /\ Len(result.value) = 1
    /\ Len(result.value[1]) = 203
    /\ SubSeq(result.value[1], 201, 203) = <<".", ".", ".">>

\* The 0-based offsets of the occurrences of kw in t from the offset from on,
\* letter case ignored, left to right without overlap.
RECURSIVE OccurrenceOffsets(_, _, _)
OccurrenceOffsets(t, kw, from) ==
    IF \A p \in from..Len(t) : ~OccursAt(t, kw, p) THEN <<>>
    ELSE LET p == CHOOSE q \in from..Len(t) :
                      OccursAt(t, kw, q) /\ \A r \in from..(q - 1) : ~OccursAt(t, kw, r)
         IN  <<p>> \o OccurrenceOffsets(t, kw, IF kw = <<>> THEN p + 1 ELSE p + Len(kw))

\* w from the 0-based offset p on, every occurrence of kw met from left to
\* right put between two '**'.
RECURSIVE MarkAll(_, _, _)
MarkAll(w, kw, p) ==
    IF \A q \in p..Len(w) : ~OccursAt(w, kw, q) THEN SubSeq(w, p + 1, Len(w))
    ELSE LET q == CHOOSE x \in p..Len(w) :
                      OccursAt(w, kw, x) /\ \A y \in p..(x - 1) : ~OccursAt(w, kw, y)
         IN  SubSeq(w, p + 1, q)
               \o <<"*", "*">> \o SubSeq(w, q + 1, q + Len(kw)) \o <<"*", "*">>
               \o (IF kw # <<>> THEN MarkAll(w, kw, q + Len(kw))
                   ELSE IF q < Len(w) THEN <<w[q + 1]>> \o MarkAll(w, kw, q + 1)
                   ELSE <<>>)

\* The window of the occurrence of kw at p: 100 characters before it and 100
\* after it, within the text, trimmed.
Window(t, kw, p) ==
    LET lo == IF p > 100 THEN p - 100 ELSE 0
        hi == IF p + Len(kw) + 100 < Len(t) THEN p + Len(kw) + 100 ELSE Len(t)
    IN  Trim(SubSeq(t, lo + 1, hi))

\* C19: the i-th snippet of a keyword is built from its i-th occurrence in the
\* text (literal, letter case ignored, without overlap): the text from 100
\* characters before the occurrence to 100 after it, trimmed, with every
\* occurrence of the keyword in that trimmed window between '**' markers.
C19_Snippets ==
    result.kind \in {"matches", "search"} =>
        \A k \in DOMAIN Found :
            LET at == OccurrenceOffsets(text, k, 0)
            IN  /\ Len(Found[k]) <= Len(at)
                /\ \A i \in 1..Len(Found[k]) :
                       Found[k][i] = MarkAll(Window(text, k, at[i]), k, 0)

\* search_keywords has returned for "IT" ten snippets of a text that goes on
\* before and after the window of the tenth, which has more than two marked
\* occurrences.
C19_Witness ==
    /\ result.kind = "matches"
    /\ <<"I", "T">> \in DOMAIN result.value
    /\ Len(result.value[<<"I", "T">>]) = 10
    /\ LET at == OccurrenceOffsets(text, <<"I", "T">>, 0)
           x  == result.value[<<"I", "T">>][10]
       IN  /\ at[10] > 100
           /\ at[10] + 102 < Len(text)
           /\ Cardinality({i \in 1..Len(x) : x[i] = "*"}) > 8

\* The summary returned, by summarize or within the record of analyze_document.
Summary == IF result.kind = "summary" THEN result.value ELSE result.summary

\* Sentence j comes before sentence i in the ranking: its score is higher, or
\* equal and j is earlier in the text.
Outranks(S, j, i) ==
    \/ ScaledScore(S, j - 1) > ScaledScore(S, i - 1)
    \/ (ScaledScore(S, j - 1) = ScaledScore(S, i - 1) /\ j < i)

\* The sentences that fewer than k sentences outrank.
Selected(S, k) ==
    {i \in 1..Len(S) : Cardinality({j \in 1..Len(S) : Outranks(S, j, i)}) < k}

\* C20: when more than max_sentences sentences survive, summarize selects
\* exactly the max_sentences sentences of highest score, of two sentences of
\* equal score the earlier first; no sentence left out has a higher score than
\* a selected one; the selection is put back in the order of the text and
\* joined with single spaces.
C20_TopRanked ==
    (/\ result.kind \in {"summary", "analysis"}
     /\ Limit >= 0
     /\ Len(Survivors(text)) > Limit) =>
        LET S   == Survivors(text)
            sel == Selected(S, Limit)
        IN  /\ Cardinality(sel) = Limit
            /\ \A i \in sel : \A j \in (1..Len(S)) \ sel :
                   ScaledScore(S, j - 1) <= ScaledScore(S, i - 1)
            /\ Summary = Spaced(Pick(S, sel, 1))

\* summarize has returned three of four surviving sentences, one of them
\* with the same score as the sentence left out, and the sentence ranked first
\* is not the first of the text.
C20_Witness ==
    /\ result.kind = "summary"
    /\ max_sentences = <<3>>
    /\ LET S   == Survivors(text)
           sel == Selected(S, 3)
       IN  /\ Len(S) = 4
           /\ \E i \in sel : \E j \in (1..Len(S)) \ sel :
                  ScaledScore(S, j - 1) = ScaledScore(S, i - 1)
           /\ \E i \in sel : ScaledScore(S, i - 1) > ScaledScore(S, 0)

\* The legal vocabulary, each term once.
LegalVocabulary == {important_keywords[i] : i \in 1..Len(important_keywords)}

\* The terms of the vocabulary x contains, letter case ignored.
TermsIn(x) == {w \in LegalVocabulary : Occurs(x, w)}

\* The score of the i-th of the sentences S before the decay.
Merit(S, i) ==
    2 * Cardinality(TermsIn(S[i]))
    + (IF \E j \in 1..Len(S[i]) : DigitChar(S[i][j]) THEN 1 ELSE 0)
    + (IF \E j \in 1..Len(S[i]) : S[i][j] = "\"" THEN 2 ELSE 0)
    + (IF 10 * (i - 1) < 2 * Len(S) THEN 1 ELSE 0)
    - (IF Len(S[i]) > 500 THEN 1 ELSE 0)

\* C21: the score of the surviving sentence of index idx among n is
\* (2 x the number of distinct vocabulary terms it contains, letter case
\* ignored, + 1 for a digit, + 2 for a double quote, + 1 if idx < 0.2 x n,
\* - 1 if it is longer than 500 characters) x (1 - (idx / n) x 0.3); the
\* factor is 1 for idx = 0 and above 0.7 always, and the divisor n is never 0.
C21_Score ==
    result.kind = "scores" =>
        LET S == Survivors(text)
            n == Len(S)
        IN  /\ Len(result.value) = n
            /\ \A i \in 1..n :
                   LET score  == result.value[i][2]
                       factor == PositionScore(S, i - 1)
                   IN  /\ result.value[i][1] = S[i]
                       /\ result.value[i][3] = i - 1
                       /\ n # 0 /\ factor.den # 0 /\ score.den # 0
                       /\ score.num * 10 * n = Merit(S, i) * (10 * n - 3 * (i - 1)) * score.den
                       /\ (i = 1) => (factor.num = factor.den /\ score.num = Merit(S, i) * score.den)
                       /\ 10 * factor.num > 7 * factor.den

\* _score_sentences has scored three sentences: the first holds two terms
\* twice each, one of them in capitals, and a digit, and is in the first
\* fifth; the second is longer than 500 characters and scores below 0; the
\* third holds a double quote and has the factor 0.8.
C21_Witness ==
    /\ result.kind = "scores"
    /\ Len(result.value) = 3
    /\ result.value[1][2].num = 6 * result.value[1][2].den
    /\ Len(result.value[2][1]) = 501
    /\ result.value[2][2].num < 0
    /\ result.value[3][2].num * 10 = 2 * 8 * result.value[3][2].den
    /\ \E p \in 0..5 : \E q \in 20..30 :
           /\ p # q
           /\ OccursAt(result.value[1][1], <<"p", "a", "r", "t", "y">>, p)
           /\ OccursAt(result.value[1][1], <<"p", "a", "r", "t", "y">>, q)

\* The key points returned, by generate_key_points or within the record of
\* analyze_document.
KeyPoints == IF result.kind = "key_points" THEN result.value ELSE result.key_points

\* The critical terms that occur in t, letter case ignored, in their order.
CriticalPresent(t) ==
    LET I == {i \in 1..Len(critical_terms) : Occurs(t, critical_terms[i])}
    IN  Pick(critical_terms, I, 1)

\* The members of list, a comma and a space between two of them.
RECURSIVE Listed(_)
Listed(list) ==
    IF list = <<>> THEN <<>>
    ELSE IF Len(list) = 1 THEN Head(list)
    ELSE Head(list) \o <<",", " ">> \o Listed(Tail(list))

Min3(n) == IF n < 3 THEN n ELSE 3

\* C22: generate_key_points returns, in this order, one clause-count line
\* iff clauses is not empty; one definition-count line and one line for each
\* of the first min(3, n) terms iff definitions is not empty; one
\* obligation-count line and one line for each of the first min(3, n)
\* obligations, cut to 150 characters, iff obligations is not empty; and one
\* last line that lists the critical terms occurring in the text, letter case
\* ignored, left out when none occurs.  The list has at most 10 lines and is
\* empty when the three lists are empty and no critical term occurs.
C22_KeyPoints ==
    result.kind \in {"key_points", "analysis"} =>
        LET kp      == KeyPoints
            c       == Len(clauses)
            d       == Len(definitions)
            o       == Len(obligations)
            present == CriticalPresent(text)
            a       == IF c > 0 THEN 1 ELSE 0
            b       == IF d > 0 THEN 1 + Min3(d) ELSE 0
            e       == IF o > 0 THEN 1 + Min3(o) ELSE 0
            f       == IF present # <<>> THEN 1 ELSE 0
        IN  /\ Len(kp) = a + b + e + f
            /\ Len(kp) <= 10
            /\ (kp = <<>>) <=> (c = 0 /\ d = 0 /\ o = 0 /\ present = <<>>)
            /\ (c > 0) => kp[1] = ClauseCountLine(c)
            /\ (d > 0) =>
                   /\ kp[a + 1] = DefinitionCountLine(d)
                   /\ \A i \in 1..Min3(d) :
                          kp[a + 1 + i] = <<Bullet>> \o <<" ", "D", "e", "f", "i", "n", "e", "s", " ", "'">>
                                          \o definitions[i].term \o <<"'">>
            /\ (o > 0) =>
                   /\ kp[a + b + 1] = ObligationCountLine(o)
                   /\ \A i \in 1..Min3(o) :
                          kp[a + b + 1 + i] = <<Bullet, " ">> \o FirstOf(obligations[i], 150)
                                              \o <<".", ".", ".">>
            /\ (f = 1) =>
                   kp[Len(kp)] = <<"C", "r", "i", "t", "i", "c", "a", "l", " ", "s", "e", "c", "t", "i", "o", "n", "s", " ", "p", "r", "e", "s", "e", "n", "t", ":", " ">>
                                 \o Listed(present)

\* generate_key_points has returned 10 lines for 12 clauses, 4 definitions,
\* 4 obligations, the third of them longer than 150 characters, and a text
\* with two critical terms.
C22_Witness ==
    /\ result.kind = "key_points"
    /\ Len(result.value) = 10
    /\ Len(clauses) = 12
    /\ Len(definitions) = 4
    /\ Len(obligations) = 4
    /\ Len(obligations[3]) = 151
    /\ Len(result.value[9]) = 155
    /\ Len(CriticalPresent(text)) = 2

\* The exception types analyze_document raises again as they are.
Expected == {"ValueError", "FileNotFoundError", "RuntimeError"}

\* C23: search_document brings every failure to its caller as RuntimeError
\* 'Error searching document': a missing file, an unsupported extension, a
\* failure of the decoding, and a file_path that is no path, never as
\* FileNotFoundError or ValueError; and it returns for no such file.
\* analyze_document raises FileNotFoundError, ValueError and RuntimeError
\* again unchanged, and an exception of any other type as RuntimeError.
C23_ErrorKinds ==
    [][ /\ (pc' = "raised" /\ op' = "search_document") =>
               /\ exc'.type = "RuntimeError"
               /\ exc'.type \notin {"FileNotFoundError", "ValueError"}
               /\ Head(exc'.msg) = "Error searching document"
               /\ Tail(exc'.msg) = exc.msg
        /\ (pc' \in {"returned", "raised"} /\ op' = "search_document") =>
               ((pc' = "raised") <=> ~Decodable(file'))
        /\ (pc' = "raised" /\ op' = "analyze_document") =>
               /\ (exc.type \in Expected) => (exc' = exc)
               /\ (exc.type \notin Expected) =>
                      /\ exc'.type = "RuntimeError"
                      /\ Head(exc'.msg) = "Unexpected error during analysis"
               /\ (file' # NotAPath /\ ~file'.exists) => exc'.type = "FileNotFoundError"
               /\ (file'.exists /\ UnsupportedExtension(file'.ext)) => exc'.type = "ValueError"
               /\ (file' = NotAPath) => (exc.type = "TypeError" /\ exc'.type = "RuntimeError")
      ]_vars

\* search_document has raised RuntimeError 'Error searching document' for a
\* missing text file.
C23_Witness ==
    /\ pc = "raised"
    /\ op = "search_document"
    /\ file # NotAPath
    /\ ~file.exists
    /\ LowerSeq(file.ext) = <<".", "t", "x", "t">>
    /\ exc = [type |-> "RuntimeError",
              msg  |-> <<"Error searching document", "File not found">>]

====
